---- MODULE Spec2Model ----
(***************************************************************************)
(* The in-memory event bus of protoc-gen-cloudevents-go (package memory):  *)
(* subject matching, broadcast fan-out and handler-group round-robin, for  *)
(* one caller and for concurrent callers; and the mock NATS connection of  *)
(* package nats.                                                           *)
(*                                                                         *)
(* A Go string is a sequence of one-character strings, so that the         *)
(* matcher can be computed character by character as the code does.        *)
(***************************************************************************)
EXTENDS Integers, Sequences, FiniteSets, TLC

VARIABLES
    handlers,    \* MemoryBus.handlers: pattern -> sequence of handlers
    groups,      \* MemoryBus.groups: pattern -> group -> sequence of handlers
    groupIndex,  \* MemoryBus.groupIndex: pattern -> group -> cursor
    call,        \* the last call made on the bus and its arguments
    ret,         \* the error that call returned ("nil" for no error)
    invoked,     \* the handler invocations of that call, in order
    npub,        \* history: <<pattern, group>> -> matching publishes so far
    recv,        \* history: <<pattern, group>> -> invocations of each position
    mPattern,    \* matchSubject's pattern argument
    mSubject,    \* matchSubject's subject argument
    mResult,     \* matchSubject's result: "none" before the call
    cancelled,   \* the contexts whose cancel function has been called
    lastClose,   \* history: what the last Close discarded
    mu,          \* MemoryBus.mu: the callers that hold it for reading, for writing
    callers,     \* concurrent callers: caller -> where it is in its call, its locals
    running,     \* the handler invocations that have started and not returned
    received,    \* history: registration -> the events its handler was given, in order
    tally,       \* history: calls counted as they take and release the lock
    fatal,       \* the runtime has ended the program with a fatal error
    conn,        \* MockConn: closed, drained, subs, msgChan
    closers,     \* goroutines started by MockConn.Drain that have yet to run
    workers,     \* the goroutine of each MockSub: whether it ranges, what it handled
    connCall,    \* the last call on the MockConn or the MockNATSBus, numbered
    connRet,     \* the error that call returned ("nil" for no error)
    natsConn,    \* NATSBus.conn: closed, draining, its subscriptions, messages sent
    subscriptions, \* NATSBus.subscriptions: the subscriptions the bus tracks
    natsCall,    \* the last call made on the NATSBus, numbered
    natsRet      \* the error that call returned ("nil" for no error)

busVars == <<handlers, groups, groupIndex, call, ret, invoked>>
histVars == <<npub, recv>>
matchVars == <<mPattern, mSubject, mResult>>
concVars == <<mu, callers, running, received, tally, fatal>>
mockVars == <<conn, closers, workers, connCall, connRet>>
natsVars == <<natsConn, subscriptions, natsCall, natsRet>>
otherVars == <<concVars, mockVars, natsVars>>
vars == <<handlers, groups, groupIndex, call, ret, invoked,
          npub, recv, mPattern, mSubject, mResult, cancelled, lastClose,
          mu, callers, running, received, tally, fatal,
          conn, closers, workers, connCall, connRet,
          natsConn, subscriptions, natsCall, natsRet>>

-----------------------------------------------------------------------------
(* Bounds of the model.                                                    *)

MaxPatLen == 3         \* longest pattern given to matchSubject alone
MaxSubjLen == 5        \* longest subject given to matchSubject alone
MaxRegistrations == 3  \* registrations held by the bus at one time
MaxCursor == 3         \* a group is dispatched to while its cursor is below this
MaxCalls == 2          \* calls each concurrent caller makes
MaxConnCalls == 4      \* calls made on the mock connection and the mock bus
MaxNatsCalls == 4      \* calls made on the NATSBus
IntBits == 4           \* width of the model's int, standing for Go's 32 or 64

-----------------------------------------------------------------------------
(* Strings.                                                                *)

Empty == << >>
Star == "*"
Dot == "."
Separator == "/"
Backslash == "\\"

Drop(s, n) == SubSeq(s, n + 1, Len(s))

\* strings.Contains(s, c) for a one-character c
Contains(s, c) == \E i \in 1..Len(s) : s[i] = c

\* strings.ReplaceAll(s, old, new) for one-character old and new
ReplaceAll(s, old, new) == [i \in 1..Len(s) |-> IF s[i] = old THEN new ELSE s[i]]

\* the non-empty strings of at most n characters
StringsUpTo(alphabet, n) == UNION {[1..k -> alphabet] : k \in 1..n}

-----------------------------------------------------------------------------
(* path/filepath.Match, as matchSubject calls it (Separator is '/').       *)
(* Character classes are left out: no pattern of the model holds a '['.    *)

RECURSIVE LeadingStars(_)
LeadingStars(pattern) ==
    IF Len(pattern) > 0 /\ pattern[1] = Star
    THEN 1 + LeadingStars(Tail(pattern))
    ELSE 0

\* scanChunk's loop: the 0-based index of the first '*' at or after i,
\* a backslash hiding the character after it; Len(pattern) when there is none
RECURSIVE ScanEnd(_, _)
ScanEnd(pattern, i) ==
    IF i >= Len(pattern) THEN Len(pattern)
    ELSE IF pattern[i + 1] = Backslash
         THEN ScanEnd(pattern, IF i + 1 < Len(pattern) THEN i + 2 ELSE i + 1)
    ELSE IF pattern[i + 1] = Star THEN i
    ELSE ScanEnd(pattern, i + 1)

scanChunk(pattern) ==
    LET k == LeadingStars(pattern)
        p == Drop(pattern, k)
        i == ScanEnd(p, 0)
    IN  [star |-> k > 0, chunk |-> SubSeq(p, 1, i), rest |-> Drop(p, i)]

\* matchChunk's loop: once failed, the chunk is still walked but s is not read
RECURSIVE matchChunkLoop(_, _, _)
matchChunkLoop(chunk, s, failed) ==
    IF Len(chunk) = 0
    THEN IF failed
         THEN [rest |-> Empty, ok |-> FALSE, err |-> FALSE]
         ELSE [rest |-> s, ok |-> TRUE, err |-> FALSE]
    ELSE LET f == failed \/ Len(s) = 0
             literal(c) ==
                 IF f THEN matchChunkLoop(Tail(c), s, TRUE)
                 ELSE matchChunkLoop(Tail(c), Tail(s), c[1] # s[1])
         IN  IF chunk[1] = "?"
             THEN IF f THEN matchChunkLoop(Tail(chunk), s, TRUE)
                  ELSE matchChunkLoop(Tail(chunk), Tail(s), s[1] = Separator)
             ELSE IF chunk[1] = Backslash
             THEN IF Len(chunk) = 1
                  THEN [rest |-> Empty, ok |-> FALSE, err |-> TRUE]
                  ELSE literal(Tail(chunk))
             ELSE literal(chunk)

matchChunk(chunk, s) == matchChunkLoop(chunk, s, FALSE)

RECURSIVE Match(_, _)
RECURSIVE StarScan(_, _, _, _)

\* Match's inner loop: look for the chunk after skipping i+1 characters of
\* name, never skipping a Separator
StarScan(chunk, rest, name, i) ==
    IF ~(i < Len(name) /\ name[i + 1] # Separator)
    THEN [matched |-> FALSE, err |-> FALSE]
    ELSE LET r == matchChunk(chunk, Drop(name, i + 1))
         IN  IF r.ok
             THEN IF Len(rest) = 0 /\ Len(r.rest) > 0
                  THEN StarScan(chunk, rest, name, i + 1)
                  ELSE Match(rest, r.rest)
             ELSE IF r.err THEN [matched |-> FALSE, err |-> TRUE]
             ELSE StarScan(chunk, rest, name, i + 1)

Match(pattern, name) ==
    IF Len(pattern) = 0
    THEN [matched |-> Len(name) = 0, err |-> FALSE]
    ELSE LET sc == scanChunk(pattern)
         IN  IF sc.star /\ Len(sc.chunk) = 0
             THEN [matched |-> ~Contains(name, Separator), err |-> FALSE]
             ELSE LET r == matchChunk(sc.chunk, name)
                  IN  IF r.ok /\ (Len(r.rest) = 0 \/ Len(sc.rest) > 0)
                      THEN Match(sc.rest, r.rest)
                      ELSE IF r.err THEN [matched |-> FALSE, err |-> TRUE]
                      ELSE IF sc.star
                           THEN StarScan(sc.chunk, sc.rest, name, 0)
                           ELSE [matched |-> FALSE, err |-> FALSE]

-----------------------------------------------------------------------------
(* matchSubject.                                                           *)

\* a matcher without wildcard support
matchSubjectExactOnly(pattern, subject) == pattern = subject

\* a matcher whose exact comparison is strings.HasPrefix(pattern, subject)
matchSubjectPrefix(pattern, subject) ==
    IF ~Contains(pattern, Star)
    THEN Len(subject) <= Len(pattern) /\ SubSeq(pattern, 1, Len(subject)) = subject
    ELSE LET m == Match(pattern, subject)
         IN  IF m.err THEN FALSE ELSE m.matched

matchSubject(pattern, subject) ==
    IF ~Contains(pattern, Star)
    THEN pattern = subject
    ELSE LET filePattern == ReplaceAll(pattern, Star, Star)
             m == Match(filePattern, subject)
         IN  IF m.err THEN FALSE ELSE m.matched

-----------------------------------------------------------------------------
(* The values the calls are made with.                                     *)

A == <<"a">>
B == <<"b">>
C == <<"c">>
SubjAB == A \o <<Dot>> \o B         \* "a.b"
SubjAC == A \o <<Dot>> \o C         \* "a.c"
PatAStar == A \o <<Dot, Star>>      \* "a.*"

Patterns == {SubjAB, PatAStar}
Subjects == {SubjAB, SubjAC, A}
Groups == {"g1", "g2"}
NoGroup == ""

\* handler1 of TestHandlerError_DoesNotAffectOthers always fails, handler2
\* never does; a nil EventHandler and a nil *cloudevents.Event are values too
Handlers == {"h1", "hFail"}
NilHandler == "nilHandler"
Event == "event"
NilEvent == "nilEvent"

\* context.Background() and a context made by context.WithCancel
Background == "background"
Cancellable == "cancellable"

\* the handler of TestContextCancellation looks at the context it is invoked
\* with: it returns ctx.Err() when that context is done and takes the event
\* otherwise
HandlerResult(h, ctx) ==
    IF h = "hFail" THEN "error"
    ELSE IF h = "hCtx" /\ ctx \in cancelled THEN "canceled"
    ELSE "nil"

-----------------------------------------------------------------------------
(* Go maps: a function whose domain is the set of keys present.            *)

EmptyMap == << >>
Get(m, k, default) == IF k \in DOMAIN m THEN m[k] ELSE default
Put(m, k, v) == [x \in DOMAIN m \cup {k} |-> IF x = k THEN v ELSE m[x]]

\* the orders in which a range loop may visit the keys S
Orders(S) == {f \in [1..Cardinality(S) -> S] : \A x \in S : \E i \in DOMAIN f : f[i] = x}

\* for the nested range loops over b.groups: an order of the groups of each
\* of the patterns ps
GroupOrders(gs, ps) ==
    {f \in [ps -> UNION {Orders(DOMAIN gs[p]) : p \in ps}] :
        \A p \in ps : f[p] \in Orders(DOMAIN gs[p])}

-----------------------------------------------------------------------------
(* NewMemoryBus.                                                           *)

NoCall == [op |-> "NewMemoryBus", ctx |-> Background, subject |-> Empty,
           group |-> NoGroup, handler |-> NilHandler, event |-> NilEvent]

NewMemoryBus ==
    /\ handlers = EmptyMap
    /\ groups = EmptyMap
    /\ groupIndex = EmptyMap

-----------------------------------------------------------------------------
(* Publish.                                                                *)

Invocation(ctx, kind, pattern, group, index, h) ==
    [kind |-> kind, pattern |-> pattern, group |-> group, index |-> index,
     handler |-> h, ctx |-> ctx, result |-> HandlerResult(h, ctx)]

\* a validation that forgets the event
PublishErrorNoEventCheck(subject, event) ==
    IF subject = Empty THEN "subject is required" ELSE "nil"

\* a validation that takes a publish nobody listens to for an error
PublishErrorNoSubscribers(subject, event) ==
    IF subject = Empty THEN "subject is required"
    ELSE IF event = NilEvent THEN "event is required"
    ELSE IF /\ \A p \in DOMAIN handlers : ~matchSubject(p, subject)
            /\ \A p \in DOMAIN groups : ~matchSubject(p, subject)
         THEN "no subscribers"
    ELSE "nil"

PublishError(subject, event) ==
    IF subject = Empty THEN "subject is required"
    ELSE IF event = NilEvent THEN "event is required"
    ELSE "nil"

\* a dispatch that visits the handlers last-registered first
InvokeAllReversed(ctx, pattern, hs) ==
    [i \in 1..Len(hs) |->
        Invocation(ctx, "broadcast", pattern, NoGroup, Len(hs) - i, hs[Len(hs) + 1 - i])]

\* a dispatch that returns at the first handler error
RECURSIVE InvokeUntilError(_, _, _, _)
InvokeUntilError(ctx, pattern, hs, i) ==
    IF i > Len(hs) THEN << >>
    ELSE LET inv == Invocation(ctx, "broadcast", pattern, NoGroup, i - 1, hs[i])
         IN  IF inv.result # "nil" THEN <<inv>>
             ELSE <<inv>> \o InvokeUntilError(ctx, pattern, hs, i + 1)

InvokeAllFailFast(ctx, pattern, hs) == InvokeUntilError(ctx, pattern, hs, 1)

\* a dispatch that gives up when its context is done
InvokeAllUnlessDone(ctx, pattern, hs) ==
    IF ctx \in cancelled THEN << >>
    ELSE [i \in 1..Len(hs) |-> Invocation(ctx, "broadcast", pattern, NoGroup, i - 1, hs[i])]

\* the inner loop of the broadcast pass: every handler of the pattern, in
\* registration order, its result discarded
InvokeAll(ctx, pattern, hs) ==
    [i \in 1..Len(hs) |-> Invocation(ctx, "broadcast", pattern, NoGroup, i - 1, hs[i])]

\* the broadcast pass, the patterns visited in the given order
RECURSIVE BroadcastPass(_, _, _)
BroadcastPass(ctx, order, subject) ==
    IF order = << >> THEN << >>
    ELSE (IF matchSubject(Head(order), subject)
          THEN InvokeAll(ctx, Head(order), handlers[Head(order)])
          ELSE << >>) \o BroadcastPass(ctx, Tail(order), subject)

\* Go's % on int: the sign of the dividend
GoMod(a, n) == IF a >= 0 THEN a % n ELSE -((-a) % n)

\* a cursor read per pattern: the furthest cursor among the pattern's groups
CursorOfPattern(gi, pattern, group) ==
    LET m == Get(gi, pattern, EmptyMap)
    IN  IF DOMAIN m = {} THEN 0
        ELSE CHOOSE c \in {m[g] : g \in DOMAIN m} : \A g \in DOMAIN m : m[g] <= c

\* a cursor read per group name: the furthest cursor the name has under any
\* pattern
CursorOfGroupName(gi, pattern, group) ==
    LET cs == {gi[p][group] : p \in {q \in DOMAIN gi : group \in DOMAIN gi[q]}}
    IN  IF cs = {} THEN 0 ELSE CHOOSE c \in cs : \A d \in cs : d <= c

\* b.groupIndex[pattern][group]: 0 for a missing key
CursorOf(gi, pattern, group) == Get(Get(gi, pattern, EmptyMap), group, 0)

\* a selection that starts at the second handler
SelectIndexOffByOne(cursor, n) == GoMod(cursor + 1, n)

SelectIndex(cursor, n) == GoMod(cursor, n)

\* Go's int: two's complement, IntBits wide
MinInt == -(2 ^ (IntBits - 1))
MaxInt == 2 ^ (IntBits - 1) - 1

\* x++ on an int: the increment of the largest int wraps around
Inc(x) == IF x = MaxInt THEN MinInt ELSE x + 1

\* handlers[index] with an index outside the slice
PanicIndex == "panic: runtime error: index out of range"

\* one group of a matching pattern: select, advance the cursor, invoke. A
\* negative index stops the call at handlers[index], before the increment
DispatchGroup(st, pattern, group) ==
    LET hs == groups[pattern][group]
    IN  IF st.panicked \/ Len(hs) = 0 THEN st
        ELSE LET cursor == CursorOf(st.gi, pattern, group)
                 index == SelectIndex(cursor, Len(hs))
             IN  IF index < 0 THEN [st EXCEPT !.panicked = TRUE]
                 ELSE [ctx |-> st.ctx,
                       gi |-> Put(st.gi, pattern,
                                  Put(Get(st.gi, pattern, EmptyMap), group, Inc(cursor))),
                       log |-> Append(st.log,
                                      Invocation(st.ctx, "group", pattern, group, index,
                                                 hs[index + 1])),
                       panicked |-> FALSE]

RECURSIVE DispatchGroups(_, _, _)
DispatchGroups(st, pattern, order) ==
    IF order = << >> THEN st
    ELSE DispatchGroups(DispatchGroup(st, pattern, Head(order)), pattern, Tail(order))

\* the group pass, patterns and groups visited in the given orders
RECURSIVE GroupPass(_, _, _, _)
GroupPass(st, order, gorders, subject) ==
    IF order = << >> THEN st
    ELSE GroupPass(IF matchSubject(Head(order), subject)
                   THEN DispatchGroups(st, Head(order), gorders[Head(order)])
                   ELSE st,
                   Tail(order), gorders, subject)

\* the keys of a registry that the loops of Publish do not skip: the visiting
\* order of the others leaves no trace
Matching(keys, subject) == {p \in keys : matchSubject(p, subject)}

\* the registered <<pattern, group>> pairs
GroupKeys(gs) == UNION {{<<p, g>> : g \in DOMAIN gs[p]} : p \in DOMAIN gs}

\* how many of the invocations in log went to position j of group k[2] of pattern k[1]
Received(log, k, j) ==
    Cardinality({i \in DOMAIN log :
        /\ log[i].kind = "group"
        /\ log[i].pattern = k[1]
        /\ log[i].group = k[2]
        /\ log[i].index = j - 1})

Publish(ctx, subject, event) ==
    LET err == PublishError(subject, event)
    IN  /\ call' = [op |-> "Publish", ctx |-> ctx, subject |-> subject,
                    group |-> NoGroup, handler |-> NilHandler, event |-> event]
        /\ IF err # "nil"
           THEN /\ ret' = err
                /\ invoked' = << >>
                /\ UNCHANGED <<handlers, groups, groupIndex, npub, recv>>
           ELSE \E border \in Orders(Matching(DOMAIN handlers, subject)),
                   gorder \in Orders(Matching(DOMAIN groups, subject)),
                   gorders \in GroupOrders(groups, Matching(DOMAIN groups, subject)) :
                    LET blog == BroadcastPass(ctx, border, subject)
                        st == GroupPass([ctx |-> ctx, gi |-> groupIndex, log |-> << >>,
                                         panicked |-> FALSE],
                                        gorder, gorders, subject)
                    IN  /\ ret' = IF st.panicked THEN PanicIndex ELSE "nil"
                        /\ invoked' = blog \o st.log
                        /\ groupIndex' = st.gi
                        /\ npub' = [k \in DOMAIN npub |->
                                      IF /\ matchSubject(k[1], subject)
                                         /\ Len(groups[k[1]][k[2]]) > 0
                                      THEN npub[k] + 1 ELSE npub[k]]
                        /\ recv' = [k \in DOMAIN recv |->
                                      [j \in DOMAIN recv[k] |->
                                          recv[k][j] + Received(st.log, k, j)]]
                        /\ UNCHANGED <<handlers, groups>>
        /\ UNCHANGED <<matchVars, cancelled, lastClose, otherVars>>

-----------------------------------------------------------------------------
(* Subscribe.                                                              *)

\* a validation that forgets the handler
SubscribeErrorNoHandlerCheck(subject, handler) ==
    IF subject = Empty THEN "subject is required" ELSE "nil"

SubscribeError(subject, handler) ==
    IF subject = Empty THEN "subject is required"
    ELSE IF handler = NilHandler THEN "handler is required"
    ELSE "nil"

Subscribe(ctx, subject, handler) ==
    LET err == SubscribeError(subject, handler)
    IN  /\ call' = [op |-> "Subscribe", ctx |-> ctx, subject |-> subject,
                    group |-> NoGroup, handler |-> handler, event |-> NilEvent]
        /\ ret' = err
        /\ invoked' = << >>
        /\ handlers' = IF err # "nil" THEN handlers
                       ELSE Put(handlers, subject,
                                Append(Get(handlers, subject, << >>), handler))
        /\ UNCHANGED <<groups, groupIndex, npub, recv>>
        /\ UNCHANGED <<matchVars, cancelled, lastClose, otherVars>>

-----------------------------------------------------------------------------
(* SubscribeWithHandlerGroup.                                              *)

\* a validation that lets the empty group name through
GroupSubscribeErrorNoGroupCheck(subject, group, handler) ==
    IF subject = Empty THEN "subject is required"
    ELSE IF handler = NilHandler THEN "handler is required"
    ELSE "nil"

\* a validation that looks at the group before the subject
GroupSubscribeErrorGroupFirst(subject, group, handler) ==
    IF group = NoGroup THEN "group is required"
    ELSE IF subject = Empty THEN "subject is required"
    ELSE IF handler = NilHandler THEN "handler is required"
    ELSE "nil"

GroupSubscribeError(subject, group, handler) ==
    IF subject = Empty THEN "subject is required"
    ELSE IF group = NoGroup THEN "group is required"
    ELSE IF handler = NilHandler THEN "handler is required"
    ELSE "nil"

\* The histories follow a group from its first registration for as long as
\* its handler list is fixed: a registration made after a publish was counted
\* ends the group's history. h is the history's value for a group that grows
\* before any publish.
GrowHistory(hist, gs, k, h) ==
    IF k[1] \in DOMAIN gs /\ k[2] \in DOMAIN gs[k[1]]
    THEN IF k \in DOMAIN npub /\ npub[k] = 0
         THEN Put(hist, k, h)
         ELSE [x \in DOMAIN hist \ {k} |-> hist[x]]
    ELSE Put(hist, k, h)

\* a registration that makes the pattern's cursor map anew each time
ResetGroupIndex(gi, subject) == Put(gi, subject, EmptyMap)

\* if b.groupIndex[subject] == nil { b.groupIndex[subject] = make(map[string]int) }
EnsureGroupIndex(gi, subject) ==
    IF subject \in DOMAIN gi THEN gi ELSE Put(gi, subject, EmptyMap)

SubscribeWithHandlerGroup(ctx, subject, group, handler) ==
    LET err == GroupSubscribeError(subject, group, handler)
        k == <<subject, group>>
        old == Get(groups, subject, EmptyMap)
    IN  /\ call' = [op |-> "SubscribeWithHandlerGroup", ctx |-> ctx, subject |-> subject,
                    group |-> group, handler |-> handler, event |-> NilEvent]
        /\ ret' = err
        /\ invoked' = << >>
        /\ IF err # "nil"
           THEN UNCHANGED <<groups, groupIndex, npub, recv>>
           ELSE /\ groups' = Put(groups, subject,
                                 Put(old, group, Append(Get(old, group, << >>), handler)))
                /\ groupIndex' = EnsureGroupIndex(groupIndex, subject)
                /\ npub' = GrowHistory(npub, groups, k, 0)
                /\ recv' = GrowHistory(recv, groups, k, Append(Get(recv, k, << >>), 0))
        /\ UNCHANGED handlers
        /\ UNCHANGED <<matchVars, cancelled, lastClose, otherVars>>

-----------------------------------------------------------------------------
(* Close.                                                                  *)

\* The history of Close: the patterns that held registrations and the groups
\* whose cursor had advanced when Close last ran. Close itself keeps no such
\* record, so the history is written by the specification that follows it.
NoClose == [happened |-> FALSE, patterns |-> {}, advanced |-> {}]

Discarded ==
    [happened |-> TRUE,
     patterns |-> DOMAIN handlers \cup DOMAIN groups,
     advanced |-> {k \in GroupKeys(groups) : CursorOf(groupIndex, k[1], k[2]) > 0}]

\* a Close that clears the groups and their cursors only
CloseKeepsHandlers ==
    /\ call' = [NoCall EXCEPT !.op = "Close"]
    /\ ret' = "nil"
    /\ invoked' = << >>
    /\ handlers' = handlers
    /\ groups' = EmptyMap
    /\ groupIndex' = EmptyMap
    /\ npub' = EmptyMap
    /\ recv' = EmptyMap
    /\ UNCHANGED <<matchVars, cancelled, otherVars>>

\* a Close that clears the registries and leaves the cursors
CloseKeepsCursors ==
    /\ call' = [NoCall EXCEPT !.op = "Close"]
    /\ ret' = "nil"
    /\ invoked' = << >>
    /\ handlers' = EmptyMap
    /\ groups' = EmptyMap
    /\ groupIndex' = groupIndex
    /\ npub' = EmptyMap
    /\ recv' = EmptyMap
    /\ UNCHANGED <<matchVars, cancelled, otherVars>>

Close ==
    /\ call' = [NoCall EXCEPT !.op = "Close"]
    /\ ret' = "nil"
    /\ invoked' = << >>
    /\ handlers' = EmptyMap
    /\ groups' = EmptyMap
    /\ groupIndex' = EmptyMap
    /\ npub' = EmptyMap
    /\ recv' = EmptyMap
    /\ UNCHANGED <<matchVars, cancelled, otherVars>>

-----------------------------------------------------------------------------
(* The bus under sequential callers.                                       *)

Registrations ==
    Cardinality(UNION {{<<p, i>> : i \in DOMAIN handlers[p]} : p \in DOMAIN handlers})
    + Cardinality(UNION {{<<k, i>> : i \in DOMAIN groups[k[1]][k[2]]} : k \in GroupKeys(groups)})

\* no group the publish would dispatch to has its cursor at the bound
CursorsBelowBound(subject) ==
    \A k \in GroupKeys(groups) :
        matchSubject(k[1], subject) => CursorOf(groupIndex, k[1], k[2]) < MaxCursor

NoOne == "none"
Callers == {"c1", "c2"}

IdleFrame ==
    [pc |-> "idle", n |-> 0, todo |-> << >>, tmp |-> 0, slice |-> << >>,
     subject |-> Empty, group |-> NoGroup, handler |-> NilHandler]

NoTally == [subs |-> 0, gsubs |-> 0, started |-> 0, returned |-> 0,
            phased |-> TRUE, overlapped |-> FALSE]

\* nobody is calling the bus
NoCallers ==
    /\ mu = [readers |-> {}, writer |-> NoOne]
    /\ callers = [c \in Callers |-> IdleFrame]
    /\ running = {}
    /\ received = EmptyMap
    /\ tally = NoTally
    /\ fatal = FALSE

\* NewMockConn, and NewMockNATSBus around it: open, not drained, no
\* subscription, no channel, no goroutine
NewMockConn == [closed |-> FALSE, drained |-> FALSE, subs |-> << >>, msgChan |-> EmptyMap]

NewMockNATSBus ==
    /\ conn = NewMockConn
    /\ closers = 0
    /\ workers = << >>
    /\ connCall = [n |-> 0, op |-> "NewMockConn", subject |-> Empty]
    /\ connRet = "nil"

\* NewNATSBus on a connection that nats.Connect opened: no subscription
NewNATSBus ==
    /\ natsConn = [closed |-> FALSE, draining |-> FALSE, subs |-> << >>, sent |-> 0]
    /\ subscriptions = << >>
    /\ natsCall = [n |-> 0, op |-> "NewNATSBus", subject |-> Empty, group |-> NoGroup]
    /\ natsRet = "nil"

NoMatchCall ==
    /\ mPattern = Empty
    /\ mSubject = Empty
    /\ mResult = "none"

Init ==
    /\ NewMemoryBus
    /\ call = NoCall
    /\ ret = "nil"
    /\ invoked = << >>
    /\ npub = EmptyMap
    /\ recv = EmptyMap
    /\ NoMatchCall
    /\ cancelled = {}
    /\ lastClose = NoClose
    /\ NoCallers
    /\ NewMockNATSBus
    /\ NewNATSBus

\* the calls made: every valid call on these subjects and handlers, the
\* groups registered under the wildcard pattern
PublishArgs == Subjects \X {Event}
SubscribeArgs == Patterns \X Handlers
GroupSubscribeArgs == {PatAStar} \X Groups \X Handlers

Next ==
    \/ \E a \in PublishArgs :
           CursorsBelowBound(a[1]) /\ Publish(Background, a[1], a[2])
    \/ \E a \in SubscribeArgs :
           Registrations < MaxRegistrations /\ Subscribe(Background, a[1], a[2])
    \/ \E a \in GroupSubscribeArgs :
           Registrations < MaxRegistrations /\ SubscribeWithHandlerGroup(Background, a[1], a[2], a[3])
    \/ Close /\ UNCHANGED lastClose

Spec == Init /\ [][Next]_vars

-----------------------------------------------------------------------------
(* The bus under calls that break a precondition: one valid call of each   *)
(* kind, and every combination of an empty subject, an empty group, a nil  *)
(* handler and a nil event.                                                *)

InvalidPublishArgs ==
    {<<Empty, Event>>, <<SubjAB, NilEvent>>, <<Empty, NilEvent>>}
InvalidSubscribeArgs ==
    {<<Empty, "h1">>, <<SubjAB, NilHandler>>, <<Empty, NilHandler>>}
InvalidGroupSubscribeArgs ==
    ({SubjAB, Empty} \X {"g1", NoGroup} \X {"h1", NilHandler}) \ {<<SubjAB, "g1", "h1">>}

NextInvalid ==
    \/ \E a \in {<<SubjAB, Event>>} \cup InvalidPublishArgs :
           CursorsBelowBound(a[1]) /\ Publish(Background, a[1], a[2])
    \/ \E a \in {<<SubjAB, "h1">>} \cup InvalidSubscribeArgs :
           Registrations < MaxRegistrations /\ Subscribe(Background, a[1], a[2])
    \/ \E a \in {<<SubjAB, "g1", "h1">>} \cup InvalidGroupSubscribeArgs :
           Registrations < MaxRegistrations /\ SubscribeWithHandlerGroup(Background, a[1], a[2], a[3])
    \/ Close /\ UNCHANGED lastClose

SpecInvalid == Init /\ [][NextInvalid]_vars

-----------------------------------------------------------------------------
(* The bus of TestSubscribe_WildcardPattern and TestWildcardSubscription:  *)
(* handlers under "app.*.created", publishes to the subjects of the tests. *)

App == <<"a", "p", "p">>
User == <<"u", "s", "e", "r">>
Order == <<"o", "r", "d", "e", "r">>
System == <<"s", "y", "s", "t", "e", "m">>
Created == <<"c", "r", "e", "a", "t", "e", "d">>
Updated == <<"u", "p", "d", "a", "t", "e", "d">>
V2 == <<"v", "2">>

Join3(x, y, z) == x \o <<Dot>> \o y \o <<Dot>> \o z

WildPattern == Join3(App, <<Star>>, Created)
WildMatching == {Join3(App, User, Created), Join3(App, Order, Created), Join3(App, <<"x">>, Created)}
WildOther ==
    {Join3(App, User, Updated), Join3(System, User, Created),
     User \o <<Dot>> \o Created, Join3(App, User, Created) \o <<Dot>> \o V2}

NextWild ==
    \/ \E s \in WildMatching \cup WildOther :
           CursorsBelowBound(s) /\ Publish(Background, s, Event)
    \/ Registrations < MaxRegistrations /\ Subscribe(Background, WildPattern, "h1")
    \/ Registrations < MaxRegistrations /\ SubscribeWithHandlerGroup(Background, WildPattern, "g1", "h1")
    \/ Close /\ UNCHANGED lastClose

SpecWild == Init /\ [][NextWild]_vars

-----------------------------------------------------------------------------
(* The bus of TestClose_StopsDelivery: registrations, a Close, publishes   *)
(* and registrations after it. The history of Close is kept here.          *)

NextReset ==
    \/ \E s \in {SubjAB, SubjAC} :
           CursorsBelowBound(s) /\ Publish(Background, s, Event)
    \/ \E p \in Patterns :
           Registrations < MaxRegistrations /\ Subscribe(Background, p, "h1")
    \/ \E h \in Handlers :
           /\ Registrations < MaxRegistrations
           /\ SubscribeWithHandlerGroup(Background, PatAStar, "g1", h)
    \/ Close /\ lastClose' = Discarded

SpecReset == Init /\ [][NextReset]_vars

-----------------------------------------------------------------------------
(* The bus of TestContextCancellation: every registration is made with a   *)
(* context that can be cancelled, a publish is made with that context or   *)
(* with context.Background(). "hCtx" is the handler of the test.           *)

\* cancel(), the function context.WithCancel returned with the context
Cancel(ctx) ==
    /\ cancelled' = cancelled \cup {ctx}
    /\ UNCHANGED <<busVars, histVars, matchVars, lastClose, otherVars>>

NextCtx ==
    \/ \E ctx \in {Background, Cancellable}, s \in {SubjAB, SubjAC} :
           CursorsBelowBound(s) /\ Publish(ctx, s, Event)
    \/ \E a \in Patterns \X {"hCtx", "h1"} :
           Registrations < MaxRegistrations /\ Subscribe(Cancellable, a[1], a[2])
    \/ /\ Registrations < MaxRegistrations
       /\ SubscribeWithHandlerGroup(Cancellable, PatAStar, "g1", "hCtx")
    \/ Cancel(Cancellable)
    \/ Close /\ UNCHANGED lastClose

SpecCtx == Init /\ [][NextCtx]_vars

-----------------------------------------------------------------------------
(* The bus of one group name registered under two patterns, the wildcard   *)
(* "a.*" and the exact "a.b": a publish to "a.b" matches both, a publish   *)
(* to "a.c" the wildcard alone.                                            *)

NextKeys ==
    \/ \E s \in {SubjAB, SubjAC} :
           CursorsBelowBound(s) /\ Publish(Background, s, Event)
    \/ \E p \in Patterns, h \in Handlers :
           /\ Registrations < MaxRegistrations
           /\ SubscribeWithHandlerGroup(Background, p, "g1", h)
    \/ Close /\ UNCHANGED lastClose

SpecKeys == Init /\ [][NextKeys]_vars

-----------------------------------------------------------------------------
(* The bus of one group that is published to until its cursor has gone     *)
(* through every value of the int.                                         *)

\* the publishes a group's history counts: enough for the cursor to wrap
MaxPublishes == 2 ^ IntBits

NextWrap ==
    \/ /\ \A k \in DOMAIN npub : npub[k] < MaxPublishes
       /\ Publish(Background, SubjAB, Event)
    \/ \E h \in Handlers :
           /\ Registrations < MaxRegistrations
           /\ SubscribeWithHandlerGroup(Background, PatAStar, "g1", h)
    \/ Close /\ UNCHANGED lastClose

SpecWrap == Init /\ [][NextWrap]_vars

-----------------------------------------------------------------------------
(* The fail-fast MemoryBus. It validates nothing, looks the subject up as  *)
(* a key of the maps, and its Publish returns at the first handler error.  *)
(* The histories are kept as for the other MemoryBus: a publish is counted *)
(* for every group it dispatched to, an invocation for the position it     *)
(* went to.                                                                *)

\* fmt.Errorf("handler error: %w", err), fmt.Errorf("group handler error: %w", err)
Wrap(prefix, err) == prefix \o err
HandlerError == "handler error: "
GroupHandlerError == "group handler error: "

\* a loop that goes on after a handler error
RECURSIVE RangeIgnoringErrors(_, _, _, _)
RangeIgnoringErrors(ctx, subject, hs, i) ==
    IF i > Len(hs) THEN << >>
    ELSE <<Invocation(ctx, "broadcast", subject, NoGroup, i - 1, hs[i])>>
         \o RangeIgnoringErrors(ctx, subject, hs, i + 1)

\* for _, handler := range b.handlers[subject]: the invocations from the
\* i-th handler on, the last of them the one that returned an error
RECURSIVE RangeUntilError(_, _, _, _)
RangeUntilError(ctx, subject, hs, i) ==
    IF i > Len(hs) THEN << >>
    ELSE LET inv == Invocation(ctx, "broadcast", subject, NoGroup, i - 1, hs[i])
         IN  IF inv.result # "nil" THEN <<inv>>
             ELSE <<inv>> \o RangeUntilError(ctx, subject, hs, i + 1)

\* the result of the last invocation of a log: "nil" for an empty log
LastResult(log) == IF log = << >> THEN "nil" ELSE log[Len(log)].result

\* for group, handlers := range groupHandlers: the groups of the subject in
\* the given order, up to the first whose handler returns an error
RECURSIVE FailFastGroupPass(_, _, _)
FailFastGroupPass(st, subject, order) ==
    IF order = << >> THEN st
    ELSE LET next == DispatchGroup(st, subject, Head(order))
         IN  IF next.panicked \/ LastResult(next.log) # "nil" THEN next
             ELSE FailFastGroupPass(next, subject, Tail(order))

FailFastPublish(ctx, subject, event) ==
    LET blog == RangeUntilError(ctx, subject, Get(handlers, subject, << >>), 1)
    IN  /\ call' = [op |-> "Publish", ctx |-> ctx, subject |-> subject,
                    group |-> NoGroup, handler |-> NilHandler, event |-> event]
        /\ IF LastResult(blog) # "nil"
           THEN /\ ret' = Wrap(HandlerError, LastResult(blog))
                /\ invoked' = blog
                /\ UNCHANGED groupIndex
           ELSE \E gorder \in Orders(DOMAIN Get(groups, subject, EmptyMap)) :
                    LET st == FailFastGroupPass([ctx |-> ctx, gi |-> groupIndex,
                                                 log |-> << >>, panicked |-> FALSE],
                                                subject, gorder)
                    IN  /\ ret' = IF st.panicked THEN PanicIndex
                                  ELSE IF LastResult(st.log) # "nil"
                                       THEN Wrap(GroupHandlerError, LastResult(st.log))
                                  ELSE "nil"
                        /\ invoked' = blog \o st.log
                        /\ groupIndex' = st.gi
        /\ npub' = [k \in DOMAIN npub |->
                      IF \E j \in DOMAIN recv[k] : Received(invoked', k, j) > 0
                      THEN npub[k] + 1 ELSE npub[k]]
        /\ recv' = [k \in DOMAIN recv |->
                      [j \in DOMAIN recv[k] |-> recv[k][j] + Received(invoked', k, j)]]
        /\ UNCHANGED <<handlers, groups>>
        /\ UNCHANGED <<matchVars, cancelled, lastClose, otherVars>>

FailFastSubscribe(ctx, subject, handler) ==
    /\ call' = [op |-> "Subscribe", ctx |-> ctx, subject |-> subject,
                group |-> NoGroup, handler |-> handler, event |-> NilEvent]
    /\ ret' = "nil"
    /\ invoked' = << >>
    /\ handlers' = Put(handlers, subject, Append(Get(handlers, subject, << >>), handler))
    /\ UNCHANGED <<groups, groupIndex, npub, recv>>
    /\ UNCHANGED <<matchVars, cancelled, lastClose, otherVars>>

FailFastSubscribeWithHandlerGroup(ctx, subject, group, handler) ==
    LET old == Get(groups, subject, EmptyMap)
    IN  /\ call' = [op |-> "SubscribeWithHandlerGroup", ctx |-> ctx, subject |-> subject,
                    group |-> group, handler |-> handler, event |-> NilEvent]
        /\ ret' = "nil"
        /\ invoked' = << >>
        /\ groups' = Put(groups, subject,
                         Put(old, group, Append(Get(old, group, << >>), handler)))
        /\ groupIndex' = EnsureGroupIndex(groupIndex, subject)
        /\ npub' = GrowHistory(npub, groups, <<subject, group>>, 0)
        /\ recv' = GrowHistory(recv, groups, <<subject, group>>,
                               Append(Get(recv, <<subject, group>>, << >>), 0))
        /\ UNCHANGED handlers
        /\ UNCHANGED <<matchVars, cancelled, lastClose, otherVars>>

NextFailFast ==
    \/ \E s \in {SubjAB, SubjAC} :
           CursorsBelowBound(s) /\ FailFastPublish(Background, s, Event)
    \/ \E h \in Handlers :
           Registrations < MaxRegistrations /\ FailFastSubscribe(Background, SubjAB, h)
    \/ \E g \in Groups, h \in Handlers :
           /\ Registrations < MaxRegistrations
           /\ FailFastSubscribeWithHandlerGroup(Background, SubjAB, g, h)
    \/ Close /\ UNCHANGED lastClose

SpecFailFast == Init /\ [][NextFailFast]_vars

\* The two variants side by side on the calls both take and treat alike:
\* non-empty subjects without a '*', non-empty groups, handlers that return
\* nil, a non-nil event. A call is made on either variant; the groups are
\* registered under "a.b", so that a publish to "a.c" finds no group.
PlainSubjects == {SubjAB, SubjAC}
PlainHandlers == {"h1", "h2"}

NextEquiv ==
    \/ \E s \in PlainSubjects :
           CursorsBelowBound(s) /\ Publish(Background, s, Event)
    \/ \E s \in PlainSubjects :
           CursorsBelowBound(s) /\ FailFastPublish(Background, s, Event)
    \/ \E s \in PlainSubjects, h \in PlainHandlers :
           Registrations < MaxRegistrations /\ Subscribe(Background, s, h)
    \/ \E s \in PlainSubjects, h \in PlainHandlers :
           Registrations < MaxRegistrations /\ FailFastSubscribe(Background, s, h)
    \/ \E g \in Groups, h \in PlainHandlers :
           /\ Registrations < MaxRegistrations
           /\ SubscribeWithHandlerGroup(Background, SubjAB, g, h)
    \/ \E g \in Groups, h \in PlainHandlers :
           /\ Registrations < MaxRegistrations
           /\ FailFastSubscribeWithHandlerGroup(Background, SubjAB, g, h)
    \/ Close /\ UNCHANGED lastClose

SpecEquiv == Init /\ [][NextEquiv]_vars


-----------------------------------------------------------------------------
(* The bus under concurrent callers. A call is a sequence of steps: it     *)
(* takes b.mu, reads and writes the maps, invokes handlers, releases b.mu. *)
(* The steps of different callers interleave. While a caller holds the     *)
(* lock for reading no registry changes, so the order in which its range   *)
(* loops will visit the maps is drawn when it takes the lock.              *)

\* a lock that excludes nobody
CanLockAlways(c) == TRUE

\* a lock that waits for the writer only
CanLockAmongReaders(c) == mu.writer = NoOne

\* sync.RWMutex: Lock waits for the writer and for every reader to leave
CanLock(c) == mu.writer = NoOne /\ mu.readers = {}

\* RLock waits for the writer to leave, and for a writer that waits in Lock
CanRLock(c) == mu.writer = NoOne /\ \A d \in Callers : callers[d].pc # "lock"

Idle(c) == ~fatal /\ callers[c].pc = "idle" /\ callers[c].n < MaxCalls
At(c, pc) == ~fatal /\ callers[c].pc = pc

\* the caller comes to take the lock: from its call, or from its wait in
\* RLock ("rlock") or in Lock ("lock")
Entering(c, want) == Idle(c) \/ At(c, want)

\* the registration an invocation is of
PlaceOf(inv) == <<inv.kind, inv.pattern, inv.group, inv.index>>

\* a handler started with the go statement: the loop does not wait for it
PcAfterGo == "loop"

\* handler(ctx, event): the caller is in the handler until it returns
PcAfterCall == "handler"

\* the groups the group pass will visit, their handler not yet selected
RECURSIVE GroupVisits(_, _)
GroupVisits(order, gorders) ==
    IF order = << >> THEN << >>
    ELSE [i \in DOMAIN gorders[Head(order)] |->
             Invocation(Background, "group", Head(order), gorders[Head(order)][i],
                        0, NilHandler)]
         \o GroupVisits(Tail(order), gorders)

\* Publish, up to b.mu.RLock()
PublishRLock(c, subject, event) ==
    /\ Entering(c, "rlock")
    /\ PublishError(subject, event) = "nil"
    /\ CanRLock(c)
    /\ \E border \in Orders(Matching(DOMAIN handlers, subject)),
          gorder \in Orders(Matching(DOMAIN groups, subject)),
          gorders \in GroupOrders(groups, Matching(DOMAIN groups, subject)) :
           callers' = [callers EXCEPT ![c] =
               [@ EXCEPT !.pc = "loop", !.n = @ + 1, !.subject = subject,
                         !.todo = BroadcastPass(Background, border, subject)
                                  \o GroupVisits(gorder, gorders)]]
    /\ mu' = [mu EXCEPT !.readers = @ \cup {c}]
    /\ tally' = [tally EXCEPT !.started = @ + 1,
                              !.overlapped = @ \/ mu.readers # {}]
    /\ UNCHANGED <<handlers, groups, groupIndex, running, received, fatal>>

\* the handler of an invocation starts: it is given the event
Started(c, inv) ==
    /\ running' = running \cup {[caller |-> c, n |-> callers[c].n, place |-> PlaceOf(inv)]}
    /\ received' = Put(received, PlaceOf(inv),
                       Append(Get(received, PlaceOf(inv), << >>), <<c, callers[c].n>>))

\* the broadcast pass: the next handler is called
InvokeBroadcast(c) ==
    /\ At(c, "loop")
    /\ callers[c].todo # << >>
    /\ Head(callers[c].todo).kind = "broadcast"
    /\ Started(c, Head(callers[c].todo))
    /\ callers' = [callers EXCEPT ![c] = [@ EXCEPT !.pc = PcAfterCall, !.todo = Tail(@)]]
    /\ UNCHANGED <<handlers, groups, groupIndex, mu, tally, fatal>>

\* the group pass: index := b.groupIndex[pattern][group] % len(handlers)
SelectGroupHandler(c) ==
    /\ At(c, "loop")
    /\ callers[c].todo # << >>
    /\ Head(callers[c].todo).kind = "group"
    /\ LET visit == Head(callers[c].todo)
           hs == groups[visit.pattern][visit.group]
       IN  IF Len(hs) = 0
           THEN callers' = [callers EXCEPT ![c] = [@ EXCEPT !.todo = Tail(@)]]
           ELSE LET index == SelectIndex(CursorOf(groupIndex, visit.pattern, visit.group),
                                         Len(hs))
                    inv == Invocation(Background, "group", visit.pattern, visit.group,
                                      index, hs[index + 1])
                IN  callers' = [callers EXCEPT ![c] =
                        [@ EXCEPT !.pc = "inc", !.todo = <<inv>> \o Tail(@)]]
    /\ UNCHANGED <<handlers, groups, groupIndex, mu, running, received, tally, fatal>>

\* b.groupIndex[pattern][group]++ is a read and a write of a map that the
\* caller holds for reading only. This is the read. When another caller is
\* between its own read and write the runtime may see both in the map and end
\* the program with "fatal error: concurrent map writes".
CursorLoad(c) ==
    /\ At(c, "inc")
    /\ LET inv == Head(callers[c].todo)
       IN  callers' = [callers EXCEPT ![c] =
               [@ EXCEPT !.pc = "store",
                         !.tmp = CursorOf(groupIndex, inv.pattern, inv.group)]]
    /\ fatal' \in IF \E d \in Callers \ {c} : callers[d].pc = "store"
                  THEN BOOLEAN ELSE {FALSE}
    /\ UNCHANGED <<handlers, groups, groupIndex, mu, running, received, tally>>

\* the write of the increment, and the call of the selected handler
CursorStore(c) ==
    /\ At(c, "store")
    /\ LET inv == Head(callers[c].todo)
       IN  /\ groupIndex' = Put(groupIndex, inv.pattern,
                                Put(Get(groupIndex, inv.pattern, EmptyMap), inv.group,
                                    Inc(callers[c].tmp)))
           /\ Started(c, inv)
    /\ callers' = [callers EXCEPT ![c] = [@ EXCEPT !.pc = PcAfterCall, !.todo = Tail(@)]]
    /\ UNCHANGED <<handlers, groups, mu, tally, fatal>>

\* a handler returns, and the loop of its caller goes on
HandlerReturn(r) ==
    /\ ~fatal
    /\ r \in running
    /\ running' = running \ {r}
    /\ callers' = [callers EXCEPT ![r.caller] =
           [@ EXCEPT !.pc = IF @ = "handler" THEN "loop" ELSE @]]
    /\ UNCHANGED <<handlers, groups, groupIndex, mu, received, tally, fatal>>

\* both loops are done: the deferred RUnlock, return nil
PublishRUnlock(c) ==
    /\ At(c, "loop")
    /\ callers[c].todo = << >>
    /\ callers' = [callers EXCEPT ![c] = [@ EXCEPT !.pc = "idle"]]
    /\ mu' = [mu EXCEPT !.readers = @ \ {c}]
    /\ tally' = [tally EXCEPT !.returned = @ + 1]
    /\ UNCHANGED <<handlers, groups, groupIndex, running, received, fatal>>

\* a registration or a Close that takes the lock after a Publish has taken it
\* ends the run's being in two phases, registrations then publishes
StillPhased == tally.phased /\ tally.started = 0

\* Subscribe, up to b.mu.Lock() and the read of b.handlers[subject]
SubscribeLock(c, subject, handler) ==
    /\ Entering(c, "lock")
    /\ SubscribeError(subject, handler) = "nil"
    /\ CanLock(c)
    /\ mu' = [mu EXCEPT !.writer = c]
    /\ callers' = [callers EXCEPT ![c] =
           [@ EXCEPT !.pc = "append", !.n = @ + 1, !.subject = subject,
                     !.handler = handler, !.slice = Get(handlers, subject, << >>)]]
    /\ tally' = [tally EXCEPT !.phased = StillPhased]
    /\ UNCHANGED <<handlers, groups, groupIndex, running, received, fatal>>

\* the append is stored, the deferred Unlock, return nil
SubscribeAppend(c) ==
    /\ At(c, "append")
    /\ handlers' = Put(handlers, callers[c].subject,
                       Append(callers[c].slice, callers[c].handler))
    /\ mu' = [mu EXCEPT !.writer = NoOne]
    /\ callers' = [callers EXCEPT ![c] = [@ EXCEPT !.pc = "idle", !.slice = << >>]]
    /\ tally' = [tally EXCEPT !.subs = @ + 1]
    /\ UNCHANGED <<groups, groupIndex, running, received, fatal>>

\* SubscribeWithHandlerGroup, up to b.mu.Lock() and the read of
\* b.groups[subject][group]
GroupSubscribeLock(c, subject, group, handler) ==
    /\ Entering(c, "lock")
    /\ GroupSubscribeError(subject, group, handler) = "nil"
    /\ CanLock(c)
    /\ mu' = [mu EXCEPT !.writer = c]
    /\ callers' = [callers EXCEPT ![c] =
           [@ EXCEPT !.pc = "gappend", !.n = @ + 1, !.subject = subject,
                     !.group = group, !.handler = handler,
                     !.slice = Get(Get(groups, subject, EmptyMap), group, << >>)]]
    /\ tally' = [tally EXCEPT !.phased = StillPhased]
    /\ UNCHANGED <<handlers, groups, groupIndex, running, received, fatal>>

GroupSubscribeAppend(c) ==
    /\ At(c, "gappend")
    /\ LET subject == callers[c].subject
           old == Get(groups, subject, EmptyMap)
       IN  /\ groups' = Put(groups, subject,
                            Put(old, callers[c].group,
                                Append(callers[c].slice, callers[c].handler)))
           /\ groupIndex' = IF subject \in DOMAIN groupIndex THEN groupIndex
                            ELSE Put(groupIndex, subject, EmptyMap)
    /\ mu' = [mu EXCEPT !.writer = NoOne]
    /\ callers' = [callers EXCEPT ![c] = [@ EXCEPT !.pc = "idle", !.slice = << >>]]
    /\ tally' = [tally EXCEPT !.gsubs = @ + 1]
    /\ UNCHANGED <<handlers, running, received, fatal>>

\* Close: the three maps are replaced under the lock
CloseLocked(c) ==
    /\ Entering(c, "lock")
    /\ CanLock(c)
    /\ handlers' = EmptyMap
    /\ groups' = EmptyMap
    /\ groupIndex' = EmptyMap
    /\ callers' = [callers EXCEPT ![c] = [@ EXCEPT !.pc = "idle", !.n = @ + 1]]
    /\ received' = EmptyMap
    /\ tally' = [tally EXCEPT !.subs = 0, !.gsubs = 0, !.phased = StillPhased]
    /\ UNCHANGED <<mu, running, fatal>>

seqVars == <<call, ret, invoked, npub, recv, matchVars, cancelled, lastClose, mockVars, natsVars>>

NextConc ==
    \/ \E c \in Callers : PublishRLock(c, SubjAB, Event) /\ UNCHANGED seqVars
    \/ \E c \in Callers : InvokeBroadcast(c) /\ UNCHANGED seqVars
    \/ \E c \in Callers : SelectGroupHandler(c) /\ UNCHANGED seqVars
    \/ \E c \in Callers : CursorLoad(c) /\ UNCHANGED seqVars
    \/ \E c \in Callers : CursorStore(c) /\ UNCHANGED seqVars
    \/ \E r \in running : HandlerReturn(r) /\ UNCHANGED seqVars
    \/ \E c \in Callers : PublishRUnlock(c) /\ UNCHANGED seqVars
    \/ \E c \in Callers :
           /\ Registrations < MaxRegistrations
           /\ SubscribeLock(c, PatAStar, "h1")
           /\ UNCHANGED seqVars
    \/ \E c \in Callers : SubscribeAppend(c) /\ UNCHANGED seqVars
    \/ \E c \in Callers :
           /\ Registrations < MaxRegistrations
           /\ GroupSubscribeLock(c, PatAStar, "g1", "h1")
           /\ UNCHANGED seqVars
    \/ \E c \in Callers : GroupSubscribeAppend(c) /\ UNCHANGED seqVars
    \/ \E c \in Callers : CloseLocked(c) /\ UNCHANGED seqVars

SpecConc == Init /\ [][NextConc]_vars

-----------------------------------------------------------------------------
(* The callers that wait. A call that finds b.mu taken blocks in RLock or  *)
(* in Lock until the lock is free for it; the scheduler runs every         *)
(* goroutine that can run, and every handler returns.                      *)

\* Publish blocks in b.mu.RLock()
RLockWait(c, subject, event) ==
    /\ Idle(c)
    /\ PublishError(subject, event) = "nil"
    /\ ~CanRLock(c)
    /\ callers' = [callers EXCEPT ![c] = [@ EXCEPT !.pc = "rlock"]]
    /\ UNCHANGED <<handlers, groups, groupIndex, mu, running, received, tally, fatal>>

\* Subscribe, SubscribeWithHandlerGroup or Close blocks in b.mu.Lock()
LockWait(c) ==
    /\ Idle(c)
    /\ ~CanLock(c)
    /\ callers' = [callers EXCEPT ![c] = [@ EXCEPT !.pc = "lock"]]
    /\ UNCHANGED <<handlers, groups, groupIndex, mu, running, received, tally, fatal>>

NextLive ==
    \/ NextConc
    \/ \E c \in Callers : RLockWait(c, SubjAB, Event) /\ UNCHANGED seqVars
    \/ \E c \in Callers : LockWait(c) /\ UNCHANGED seqVars

\* a step of a call that has begun and not returned, but for the return of
\* RLock
Progress(c) ==
    /\ callers[c].pc # "idle"
    /\ \/ InvokeBroadcast(c)
       \/ SelectGroupHandler(c)
       \/ CursorLoad(c)
       \/ CursorStore(c)
       \/ \E r \in running : r.caller = c /\ HandlerReturn(r)
       \/ PublishRUnlock(c)
       \/ SubscribeLock(c, PatAStar, "h1")
       \/ SubscribeAppend(c)
       \/ GroupSubscribeLock(c, PatAStar, "g1", "h1")
       \/ GroupSubscribeAppend(c)
       \/ CloseLocked(c)
    /\ UNCHANGED seqVars

\* the step that takes a waiting caller out of RLock and into the loops of
\* Publish: PublishRLock from "rlock". It is enabled exactly when the caller
\* waits and RLock can return
RLockReturns(c) == callers[c].pc = "rlock" /\ callers'[c].pc = "loop"

\* weak fairness of that step, written out
RLockFair(c) ==
    \/ []<>~(At(c, "rlock") /\ CanRLock(c))
    \/ []<><<RLockReturns(c)>>_vars

\* the scheduler runs a goroutine that can run
SpecLive ==
    /\ Init
    /\ [][NextLive]_vars
    /\ \A c \in Callers : WF_vars(Progress(c)) /\ RLockFair(c)

-----------------------------------------------------------------------------
(* MockConn and MockNATSBus. A call on the connection runs under c.mu and  *)
(* is one step; the goroutine Drain starts and the goroutine of each       *)
(* subscription take their steps between the calls.                        *)

ErrConnectionClosed == "nats: connection closed"

\* make(chan *nats.Msg, 100)
ChanCap == 100

IsClosed == conn.closed
IsDrained == conn.drained

\* a check that lets every call through
ConnNeverClosedError(c) == "nil"

\* if c.closed { return nats.ErrConnectionClosed }
ConnClosedError(c) == IF c.closed THEN ErrConnectionClosed ELSE "nil"

\* a Drain that starts no goroutine
DrainSpawnsNothing(n) == n

\* go func() { c.Close() }()
DrainSpawns(n) == n + 1

\* The mutexes a goroutine can hold when it reads or writes MockSub.closed.
\* A subscription keeps in locks the mutexes that were held at every access
\* to its flag so far, and in before the value the flag had ahead of its
\* last write: a read that shares no mutex with that write may return
\* either value.
ConnMu == "c.mu"
SubMu == "sub.mu"

\* sub.closed = true in the loop of MockConn.Close: c.mu is held, sub.mu is
\* not taken
CloseSub(sub) ==
    [sub EXCEPT !.before = sub.closed, !.closed = TRUE, !.locks = @ \cap {ConnMu}]

\* close(ch): closing a closed channel panics
CloseChan(ch) == [ch EXCEPT !.closed = TRUE, !.closes = @ + 1]

\* a Close that does not look at c.closed
ClosedAgain(c) ==
    [c EXCEPT !.closed = TRUE,
              !.subs = [i \in DOMAIN @ |-> CloseSub(@[i])],
              !.msgChan = [s \in DOMAIN @ |-> CloseChan(@[s])]]

\* the body of MockConn.Close: nothing on a closed connection; otherwise the
\* connection, every subscription and every channel are closed
Closed(c) ==
    IF c.closed THEN c
    ELSE [c EXCEPT !.closed = TRUE,
                   !.subs = [i \in DOMAIN @ |-> CloseSub(@[i])],
                   !.msgChan = [s \in DOMAIN @ |-> CloseChan(@[s])]]

Called(op, subject) ==
    /\ connCall.n < MaxConnCalls
    /\ connCall' = [n |-> connCall.n + 1, op |-> op, subject |-> subject]

MockConnClose ==
    /\ Called("Close", Empty)
    /\ conn' = Closed(conn)
    /\ connRet' = "nil"
    /\ UNCHANGED <<closers, workers>>

MockConnDrain ==
    /\ Called("Drain", Empty)
    /\ connRet' = ConnClosedError(conn)
    /\ IF connRet' # "nil"
       THEN UNCHANGED <<conn, closers>>
       ELSE /\ conn' = [conn EXCEPT !.drained = TRUE]
            /\ closers' = DrainSpawns(closers)
    /\ UNCHANGED workers

\* the goroutine of Drain runs c.Close()
DrainGoroutine ==
    /\ closers > 0
    /\ closers' = closers - 1
    /\ conn' = Closed(conn)
    /\ UNCHANGED <<workers, connCall, connRet>>

\* a send that makes room in a full channel by dropping its oldest message
SendEvictingOldest(ch, msg) ==
    IF ch.closed THEN [ch EXCEPT !.panicked = TRUE]
    ELSE IF Len(ch.buf) < ChanCap THEN [ch EXCEPT !.buf = Append(@, msg)]
    ELSE [ch EXCEPT !.buf = Append(Tail(@), msg)]

\* select { case ch <- msg: default: }: the message is dropped when the
\* channel is full; a send on a closed channel panics
Send(ch, msg) ==
    IF ch.closed THEN [ch EXCEPT !.panicked = TRUE]
    ELSE IF Len(ch.buf) < ChanCap THEN [ch EXCEPT !.buf = Append(@, msg)]
    ELSE ch

\* msg := &nats.Msg{Subject: subject, Data: data}
Msg(subject, data) == [subject |-> subject, data |-> data]

\* the data of a call is the number of the call
MockConnPublish(subject) ==
    /\ Called("Publish", subject)
    /\ connRet' = ConnClosedError(conn)
    /\ conn' = IF connRet' = "nil" /\ subject \in DOMAIN conn.msgChan
               THEN [conn EXCEPT !.msgChan[subject] = Send(@, Msg(subject, connCall'.n))]
               ELSE conn
    /\ UNCHANGED <<closers, workers>>

\* the body of MockConn.Subscribe on an open connection
Subscribed(c, subject) ==
    [c EXCEPT !.msgChan = IF subject \in DOMAIN @ THEN @
                          ELSE Put(@, subject, [buf |-> << >>, closed |-> FALSE,
                                                closes |-> 0, panicked |-> FALSE]),
              !.subs = Append(@, [subject |-> subject, closed |-> FALSE,
                                  before |-> FALSE, locks |-> {ConnMu, SubMu}])]

SubscribeCalled(op, subject) ==
    /\ Called(op, subject)
    /\ connRet' = ConnClosedError(conn)
    /\ IF connRet' # "nil"
       THEN UNCHANGED <<conn, workers>>
       ELSE /\ conn' = Subscribed(conn, subject)
            /\ workers' = Append(workers, [ranging |-> TRUE, handled |-> 0])
    /\ UNCHANGED closers

MockConnSubscribe(subject) == SubscribeCalled("Subscribe", subject)

MockConnQueueSubscribe(subject) == SubscribeCalled("QueueSubscribe", subject)

\* a read of sub.closed under sub.mu that always returns the last write
ReadsLatest(sub) == {sub.closed}

\* the values a read of sub.closed under sub.mu may return: the last write,
\* and the value before it when that write was made without sub.mu
Reads(sub) ==
    IF SubMu \in sub.locks THEN {sub.closed} ELSE {sub.closed, sub.before}

\* the goroutine of subscription i: for msg := range ch. It takes the next
\* message, reads sub.closed under sub.mu and handles the message unless it
\* read true; it ends when it read true, or at a closed and empty channel
WorkerReceive(i) ==
    /\ i \in DOMAIN workers
    /\ workers[i].ranging
    /\ LET sub == conn.subs[i]
           ch == conn.msgChan[sub.subject]
       IN  IF Len(ch.buf) > 0
           THEN \E seen \in Reads(sub) :
                    /\ conn' = [conn EXCEPT !.msgChan[sub.subject].buf = Tail(@),
                                            !.subs[i].locks = @ \cap {SubMu}]
                    /\ workers' = [workers EXCEPT ![i] =
                           IF seen THEN [@ EXCEPT !.ranging = FALSE]
                           ELSE [@ EXCEPT !.handled = @ + 1]]
           ELSE /\ ch.closed
                /\ conn' = conn
                /\ workers' = [workers EXCEPT ![i].ranging = FALSE]
    /\ UNCHANGED <<closers, connCall, connRet>>

\* MockSub.Unsubscribe: sub.closed is read and written under sub.mu
MockSubUnsubscribe(i) ==
    /\ i \in DOMAIN conn.subs
    /\ Called("Unsubscribe", conn.subs[i].subject)
    /\ LET sub == conn.subs[i]
       IN  conn' = [conn EXCEPT !.subs[i] =
               IF sub.closed THEN [sub EXCEPT !.locks = @ \cap {SubMu}]
               ELSE [sub EXCEPT !.before = FALSE, !.closed = TRUE,
                                !.locks = @ \cap {SubMu}]]
    /\ connRet' = "nil"
    /\ UNCHANGED <<closers, workers>>

\* MockNATSBus.Publish, Subscribe and SubscribeWithHandlerGroup return nil
\* and do nothing else
MockNATSBusNoOp(op, subject) ==
    /\ Called(op, subject)
    /\ connRet' = "nil"
    /\ UNCHANGED <<conn, closers, workers>>

MockNATSBusClose ==
    /\ Called("MockNATSBus.Close", Empty)
    /\ conn' = Closed(conn)
    /\ connRet' = "nil"
    /\ UNCHANGED <<closers, workers>>

MockNATSBusDrain ==
    /\ Called("MockNATSBus.Drain", Empty)
    /\ connRet' = ConnClosedError(conn)
    /\ IF connRet' # "nil"
       THEN UNCHANGED <<conn, closers>>
       ELSE /\ conn' = [conn EXCEPT !.drained = TRUE]
            /\ closers' = DrainSpawns(closers)
    /\ UNCHANGED workers

busOnlyVars == <<busVars, histVars, matchVars, cancelled, lastClose, concVars, natsVars>>

NextMock ==
    \/ MockConnClose /\ UNCHANGED busOnlyVars
    \/ MockConnDrain /\ UNCHANGED busOnlyVars
    \/ DrainGoroutine /\ UNCHANGED busOnlyVars
    \/ \E s \in {SubjAB, SubjAC} : MockConnPublish(s) /\ UNCHANGED busOnlyVars
    \/ MockConnSubscribe(SubjAB) /\ UNCHANGED busOnlyVars
    \/ MockConnQueueSubscribe(SubjAB) /\ UNCHANGED busOnlyVars
    \/ \E i \in DOMAIN workers : WorkerReceive(i) /\ UNCHANGED busOnlyVars
    \/ \E i \in DOMAIN conn.subs : MockSubUnsubscribe(i) /\ UNCHANGED busOnlyVars
    \/ \E op \in {"MockNATSBus.Publish", "MockNATSBus.Subscribe",
                   "MockNATSBus.SubscribeWithHandlerGroup"} :
           MockNATSBusNoOp(op, SubjAB) /\ UNCHANGED busOnlyVars
    \/ MockNATSBusClose /\ UNCHANGED busOnlyVars
    \/ MockNATSBusDrain /\ UNCHANGED busOnlyVars

SpecMock == Init /\ [][NextMock]_vars

\* the scheduler runs a goroutine that is ready to run
SpecMockFair == SpecMock /\ WF_vars(DrainGoroutine /\ UNCHANGED busOnlyVars)

\* the scheduler also runs the goroutine of a subscription that can take a
\* message or see its channel closed; there are at most MaxConnCalls of them
SpecMockLive ==
    /\ SpecMock
    /\ WF_vars(DrainGoroutine /\ UNCHANGED busOnlyVars)
    /\ \A i \in 1..MaxConnCalls : WF_vars(WorkerReceive(i) /\ UNCHANGED busOnlyVars)

\* The connection of TestMockConnPublishSubscribe: plain subscriptions on
\* one subject, publishes, Unsubscribe and Close, and the goroutines of the
\* subscriptions under the same scheduler.
NextDeliver ==
    \/ MockConnSubscribe(SubjAB) /\ UNCHANGED busOnlyVars
    \/ \E s \in {SubjAB, SubjAC} : MockConnPublish(s) /\ UNCHANGED busOnlyVars
    \/ \E i \in DOMAIN workers : WorkerReceive(i) /\ UNCHANGED busOnlyVars
    \/ \E i \in DOMAIN conn.subs : MockSubUnsubscribe(i) /\ UNCHANGED busOnlyVars
    \/ MockConnClose /\ UNCHANGED busOnlyVars

SpecDeliver ==
    /\ Init
    /\ [][NextDeliver]_vars
    /\ \A i \in 1..MaxConnCalls : WF_vars(WorkerReceive(i) /\ UNCHANGED busOnlyVars)

\* The connection with a full channel: one subscription on "a.b" and
\* ChanCap publishes on "a.b" that its goroutine has not begun to receive.
\* From there on: publishes on "a.b" and on "a.c", which nobody subscribed
\* to, and the goroutine.
RECURSIVE SendTimes(_, _, _)
SendTimes(ch, msg, k) == IF k = 0 THEN ch ELSE SendTimes(Send(ch, msg), msg, k - 1)

FullConn ==
    LET c == Subscribed(NewMockConn, SubjAB)
    IN  [c EXCEPT !.msgChan[SubjAB] = SendTimes(@, Msg(SubjAB, 0), ChanCap)]

InitFull ==
    /\ NewMemoryBus
    /\ call = NoCall
    /\ ret = "nil"
    /\ invoked = << >>
    /\ npub = EmptyMap
    /\ recv = EmptyMap
    /\ NoMatchCall
    /\ cancelled = {}
    /\ lastClose = NoClose
    /\ NoCallers
    /\ conn = FullConn
    /\ closers = 0
    /\ workers = <<[ranging |-> TRUE, handled |-> 0]>>
    /\ connCall = [n |-> 0, op |-> "Publish", subject |-> SubjAB]
    /\ connRet = "nil"
    /\ NewNATSBus

NextFull ==
    \/ \E s \in {SubjAB, SubjAC} : MockConnPublish(s) /\ UNCHANGED busOnlyVars
    \/ WorkerReceive(1) /\ UNCHANGED busOnlyVars

SpecFull == InitFull /\ [][NextFull]_vars

-----------------------------------------------------------------------------
(* NATSBus over a nats.Conn. A call on the bus is one step. The connection *)
(* belongs to the client library: the bus reads IsClosed of it, and a call *)
(* the library can refuse is given either outcome. A drained connection    *)
(* is closed by the library later, in a step of its own.                   *)

ErrNATSClosed == "nats: connection is closed"
ErrGroupRequired == "nats: group name is required"
ErrMarshal == "nats: failed to marshal event"
ErrPublish == "nats: failed to publish"
ErrSubscribe == "nats: failed to subscribe"
ErrQueueSubscribe == "nats: failed to queue subscribe"
ErrDrain == "drain error"

\* a check that lets every call through
NATSNeverClosedError(c) == "nil"

\* if b.conn == nil || b.conn.IsClosed() { return fmt.Errorf(...) }
NATSClosedError(c) == IF c.closed THEN ErrNATSClosed ELSE "nil"

\* a check that lets every group name through
GroupNameNotRequired(group) == "nil"

\* if group == "" { return fmt.Errorf("nats: group name is required") }
GroupRequiredError(group) == IF group = NoGroup THEN ErrGroupRequired ELSE "nil"

NATSCalled(op, subject, group) ==
    /\ natsCall.n < MaxNatsCalls
    /\ natsCall' = [n |-> natsCall.n + 1, op |-> op, subject |-> subject, group |-> group]

\* b.conn.Close(): the connection is closed and none of its subscriptions
\* receives any more
ConnClosed(c) ==
    [c EXCEPT !.closed = TRUE, !.subs = [i \in DOMAIN @ |-> [@[i] EXCEPT !.active = FALSE]]]

\* sub.Unsubscribe() of every tracked subscription
Unsubscribed(c, tracked) ==
    [c EXCEPT !.subs = [i \in DOMAIN @ |->
        IF \E j \in DOMAIN tracked : tracked[j] = i THEN [@[i] EXCEPT !.active = FALSE] ELSE @[i]]]

\* outcome: what json.Marshal and conn.Publish make of the call on an open
\* connection
NATSBusPublish(subject, outcome) ==
    /\ NATSCalled("Publish", subject, NoGroup)
    /\ natsRet' = IF NATSClosedError(natsConn) # "nil" THEN NATSClosedError(natsConn)
                  ELSE outcome
    /\ natsConn' = IF natsRet' = "nil" THEN [natsConn EXCEPT !.sent = @ + 1] ELSE natsConn
    /\ UNCHANGED subscriptions

\* the subscription the library returned is appended to the tracked list
Tracked(op, subject, group) ==
    /\ natsConn' = [natsConn EXCEPT !.subs =
           Append(@, [subject |-> subject, queue |-> group, active |-> TRUE])]
    /\ subscriptions' = Append(subscriptions, Len(natsConn.subs) + 1)

\* outcome: what conn.Subscribe makes of the call on an open connection
NATSBusSubscribe(subject, outcome) ==
    /\ NATSCalled("Subscribe", subject, NoGroup)
    /\ natsRet' = IF NATSClosedError(natsConn) # "nil" THEN NATSClosedError(natsConn)
                  ELSE outcome
    /\ IF natsRet' = "nil"
       THEN Tracked("Subscribe", subject, NoGroup)
       ELSE UNCHANGED <<natsConn, subscriptions>>

\* outcome: what conn.QueueSubscribe makes of the call on an open connection
NATSBusSubscribeWithHandlerGroup(subject, group, outcome) ==
    /\ NATSCalled("SubscribeWithHandlerGroup", subject, group)
    /\ natsRet' = IF NATSClosedError(natsConn) # "nil" THEN NATSClosedError(natsConn)
                  ELSE IF GroupRequiredError(group) # "nil" THEN GroupRequiredError(group)
                  ELSE outcome
    /\ IF natsRet' = "nil"
       THEN Tracked("SubscribeWithHandlerGroup", subject, group)
       ELSE UNCHANGED <<natsConn, subscriptions>>

NATSBusClose ==
    /\ NATSCalled("Close", Empty, NoGroup)
    /\ subscriptions' = << >>
    /\ natsConn' = IF natsConn.closed THEN Unsubscribed(natsConn, subscriptions)
                   ELSE ConnClosed(Unsubscribed(natsConn, subscriptions))
    /\ natsRet' = "nil"

\* outcome: what conn.Drain makes of the call on an open connection
NATSBusDrain(outcome) ==
    /\ NATSCalled("Drain", Empty, NoGroup)
    /\ IF natsConn.closed
       THEN /\ natsRet' = "nil"
            /\ UNCHANGED <<natsConn, subscriptions>>
       ELSE /\ natsRet' = outcome
            /\ IF outcome # "nil"
               THEN UNCHANGED <<natsConn, subscriptions>>
               ELSE /\ natsConn' = [natsConn EXCEPT !.draining = TRUE]
                    /\ subscriptions' = << >>

\* the library closes the connection it has drained
DrainCompletes ==
    /\ natsConn.draining
    /\ ~natsConn.closed
    /\ natsConn' = ConnClosed(natsConn)
    /\ UNCHANGED <<subscriptions, natsCall, natsRet>>

natsOnlyVars == <<busVars, histVars, matchVars, cancelled, lastClose, concVars, mockVars>>

NATSSubjects == {SubjAB, SubjAC}
NATSGroups == {NoGroup, "g1"}

NextNATS ==
    \/ \E s \in NATSSubjects, o \in {"nil", ErrMarshal, ErrPublish} :
           NATSBusPublish(s, o) /\ UNCHANGED natsOnlyVars
    \/ \E s \in NATSSubjects, o \in {"nil", ErrSubscribe} :
           NATSBusSubscribe(s, o) /\ UNCHANGED natsOnlyVars
    \/ \E s \in NATSSubjects, g \in NATSGroups, o \in {"nil", ErrQueueSubscribe} :
           NATSBusSubscribeWithHandlerGroup(s, g, o) /\ UNCHANGED natsOnlyVars
    \/ NATSBusClose /\ UNCHANGED natsOnlyVars
    \/ \E o \in {"nil", ErrDrain} : NATSBusDrain(o) /\ UNCHANGED natsOnlyVars
    \/ DrainCompletes /\ UNCHANGED natsOnlyVars

SpecNATS == Init /\ [][NextNATS]_vars

\* The same calls given to the MemoryBus and to a NATSBus whose broker takes
\* every message and every subscription: valid calls, and a group
\* subscription without a group name. A step is a call on one of the two.
SwapGroups == {NoGroup, "g1"}

\* what the MemoryBus returns for a call: the outcome of its validation,
\* whatever calls came before
MemoryBusResult(op, subject, group, handler, event) ==
    CASE op = "Publish" -> PublishError(subject, event)
      [] op = "Subscribe" -> SubscribeError(subject, handler)
      [] op = "SubscribeWithHandlerGroup" -> GroupSubscribeError(subject, group, handler)
      [] OTHER -> "nil"

NextSwap ==
    \/ CursorsBelowBound(SubjAB) /\ Publish(Background, SubjAB, Event)
    \/ Registrations < MaxRegistrations /\ Subscribe(Background, SubjAB, "h1")
    \/ \E g \in SwapGroups :
           /\ Registrations < MaxRegistrations
           /\ SubscribeWithHandlerGroup(Background, SubjAB, g, "h1")
    \/ Close /\ UNCHANGED lastClose
    \/ NATSBusPublish(SubjAB, "nil") /\ UNCHANGED natsOnlyVars
    \/ NATSBusSubscribe(SubjAB, "nil") /\ UNCHANGED natsOnlyVars
    \/ \E g \in SwapGroups :
           NATSBusSubscribeWithHandlerGroup(SubjAB, g, "nil") /\ UNCHANGED natsOnlyVars
    \/ NATSBusClose /\ UNCHANGED natsOnlyVars

SpecSwap == Init /\ [][NextSwap]_vars

-----------------------------------------------------------------------------
(* matchSubject alone, on every pattern and subject up to a length. Both   *)
(* are non-empty: Subscribe registers no empty pattern and Publish matches *)
(* no empty subject.                                                       *)

PatChars == {"a", Dot, Star, "?"}
SubjChars == {"a", "b", Dot}

InitMatch ==
    /\ NewMemoryBus
    /\ call = NoCall
    /\ ret = "nil"
    /\ invoked = << >>
    /\ npub = EmptyMap
    /\ recv = EmptyMap
    /\ mPattern \in StringsUpTo(PatChars, MaxPatLen)
    /\ mSubject \in StringsUpTo(SubjChars, MaxSubjLen)
    /\ mResult = "none"
    /\ cancelled = {}
    /\ lastClose = NoClose
    /\ NoCallers
    /\ NewMockNATSBus
    /\ NewNATSBus

MatchCall ==
    /\ mResult = "none"
    /\ mResult' = IF matchSubject(mPattern, mSubject) THEN "match" ELSE "nomatch"
    /\ UNCHANGED <<mPattern, mSubject>>
    /\ UNCHANGED <<handlers, groups, groupIndex, call, ret, invoked, npub, recv>>
    /\ UNCHANGED <<cancelled, lastClose, otherVars>>

NextMatch == MatchCall

SpecMatch == InitMatch /\ [][NextMatch]_vars

-----------------------------------------------------------------------------
(* What the last call showed.                                              *)

Published == call.op = "Publish" /\ ret = "nil"

\* the invocations, in order, of the broadcast handlers of pattern p
BroadcastLog(log, p) ==
    LET Of(e) == e.kind = "broadcast" /\ e.pattern = p
    IN  SelectSeq(log, Of)

\* the invocations, in order, of the handlers of group k[2] of pattern k[1]
GroupLog(log, k) ==
    LET Of(e) == e.kind = "group" /\ e.pattern = k[1] /\ e.group = k[2]
    IN  SelectSeq(log, Of)

HandlersOf(log) == [i \in DOMAIN log |-> log[i].handler]
IndexesOf(log) == [i \in DOMAIN log |-> log[i].index]

-----------------------------------------------------------------------------
(* C1. After a successful Publish, every broadcast invocation belongs to a *)
(* registered pattern that matches the subject, and for each such pattern  *)
(* the invocations are its handlers, each registration once, in            *)
(* registration order.                                                     *)

C1_BroadcastFanOut ==
    Published =>
        /\ \A i \in DOMAIN invoked :
               invoked[i].kind = "broadcast" =>
                   /\ invoked[i].pattern \in DOMAIN handlers
                   /\ matchSubject(invoked[i].pattern, call.subject)
        /\ \A p \in DOMAIN handlers :
               matchSubject(p, call.subject) =>
                   /\ HandlersOf(BroadcastLog(invoked, p)) = handlers[p]
                   /\ IndexesOf(BroadcastLog(invoked, p)) = [i \in DOMAIN handlers[p] |-> i - 1]

\* a publish reached two patterns, one of them holding two different handlers
C1_Witness ==
    /\ Published
    /\ \E p, q \in DOMAIN handlers :
           /\ p # q
           /\ matchSubject(p, call.subject)
           /\ matchSubject(q, call.subject)
           /\ Len(handlers[p]) >= 2
           /\ handlers[p][1] # handlers[p][2]
           /\ Len(BroadcastLog(invoked, p)) >= 2

-----------------------------------------------------------------------------
(* C2. For a group whose handler list has been fixed since the bus was     *)
(* fresh, the N-th publish that matches its pattern invokes the handler at *)
(* position (N-1) mod K and no other, and each position has received       *)
(* floor(N/K) or ceil(N/K) invocations: exactly as many as there are       *)
(* i in 1..N with (i-1) mod K at that position.                            *)

C2_GroupRoundRobin ==
    \A k \in DOMAIN npub :
        LET hs == groups[k[1]][k[2]]
            K == Len(hs)
            N == npub[k]
            log == GroupLog(invoked, k)
        IN  /\ K >= 1
            /\ (Published /\ matchSubject(k[1], call.subject)) =>
                   /\ N >= 1
                   /\ Len(log) = 1
                   /\ log[1].index = (N - 1) % K
                   /\ log[1].handler = hs[((N - 1) % K) + 1]
            /\ \A j \in 1..K :
                   /\ recv[k][j] = Cardinality({i \in 1..N : (i - 1) % K = j - 1})
                   /\ recv[k][j] \in {N \div K, (N + K - 1) \div K}

\* the third publish to a group of two different handlers came back to the first
C2_Witness ==
    /\ Published
    /\ \E k \in DOMAIN npub :
           /\ matchSubject(k[1], call.subject)
           /\ Len(groups[k[1]][k[2]]) = 2
           /\ groups[k[1]][k[2]][1] # groups[k[1]][k[2]][2]
           /\ npub[k] = 3
           /\ recv[k] = <<2, 1>>

-----------------------------------------------------------------------------
(* C3. A successful Publish invokes, for every group of every matching     *)
(* pattern, exactly one handler: the one at the group's own cursor modulo  *)
(* the group's own handler count, as they stood before the call; the other *)
(* groups of the pattern have no part in the choice. Groups of patterns    *)
(* that do not match are not invoked.                                      *)

OwnCursor(k) ==
    IF k[1] \in DOMAIN groupIndex /\ k[2] \in DOMAIN groupIndex[k[1]]
    THEN groupIndex[k[1]][k[2]]
    ELSE 0

C3_Step ==
    (call'.op = "Publish" /\ ret' = "nil") =>
        \A k \in GroupKeys(groups) :
            LET hs == groups[k[1]][k[2]]
                log == GroupLog(invoked', k)
            IN  IF matchSubject(k[1], call'.subject)
                THEN /\ Len(log) = 1
                     /\ log[1].handler = hs[(OwnCursor(k) % Len(hs)) + 1]
                ELSE log = << >>

C3_IndependentGroups == [][C3_Step]_vars

\* a publish reached two groups of one pattern whose cursors differ, one of
\* them with two different handlers to choose from
C3_Witness ==
    /\ Published
    /\ \E k1, k2 \in GroupKeys(groups) :
           /\ k1[1] = k2[1]
           /\ k1[2] # k2[2]
           /\ Len(GroupLog(invoked, k1)) = 1
           /\ Len(GroupLog(invoked, k2)) = 1
           /\ OwnCursor(k1) # OwnCursor(k2)
           /\ Len(groups[k2[1]][k2[2]]) = 2
           /\ groups[k2[1]][k2[2]][1] # groups[k2[1]][k2[2]][2]

-----------------------------------------------------------------------------
(* C4. matchSubject, on a pattern that holds a '*', agrees with the        *)
(* segment-wise matcher: as many dot-delimited segments in the subject as  *)
(* in the pattern, a "*" segment against a non-empty segment, any other    *)
(* segment against an equal one.                                           *)

\* strings.Split(s, ".")
RECURSIVE SplitDot(_)
SplitDot(s) ==
    IF ~Contains(s, Dot) THEN <<s>>
    ELSE LET i == CHOOSE j \in 1..Len(s) : s[j] = Dot /\ \A l \in 1..(j - 1) : s[l] # Dot
         IN  <<SubSeq(s, 1, i - 1)>> \o SplitDot(Drop(s, i))

SegmentMatch(pattern, subject) ==
    LET ps == SplitDot(pattern)
        ss == SplitDot(subject)
    IN  /\ Len(ps) = Len(ss)
        /\ \A i \in DOMAIN ps :
               IF ps[i] = <<Star>> THEN Len(ss[i]) > 0 ELSE ps[i] = ss[i]

C4_MatchesSegmentWise ==
    (mResult # "none" /\ Contains(mPattern, Star)) =>
        ((mResult = "match") <=> SegmentMatch(mPattern, mSubject))

-----------------------------------------------------------------------------
(* C5. With handlers under "app.*.created", a successful Publish invokes   *)
(* every broadcast handler and one handler of every group of that pattern  *)
(* when the subject is "app.", one non-empty segment, ".created"; it       *)
(* invokes none of them for "app.user.updated", "system.user.created",     *)
(* "user.created" and "app.user.created.v2".                               *)

MiddleVariant(subject) ==
    LET ss == SplitDot(subject)
    IN  Len(ss) = 3 /\ ss[1] = App /\ Len(ss[2]) > 0 /\ ss[3] = Created

WildRegistered ==
    (IF WildPattern \in DOMAIN handlers THEN Len(handlers[WildPattern]) ELSE 0)
    + (IF WildPattern \in DOMAIN groups THEN Cardinality(DOMAIN groups[WildPattern]) ELSE 0)

-----------------------------------------------------------------------------
(* C6. After a successful Publish, the handlers registered under a pattern *)
(* without '*' have all been invoked when the subject is that very string, *)
(* and none of them otherwise.                                             *)

C6_ExactMatch ==
    Published =>
        \A p \in DOMAIN handlers :
            ~Contains(p, Star) =>
                HandlersOf(BroadcastLog(invoked, p)) =
                    IF p = call.subject THEN handlers[p] ELSE << >>

\* a publish to "a.c" reached a handler under "a.*" and passed by the one
\* registered under "a.b"
C6_Witness ==
    /\ Published
    /\ SubjAB \in DOMAIN handlers
    /\ call.subject = SubjAC
    /\ BroadcastLog(invoked, SubjAB) = << >>
    /\ BroadcastLog(invoked, PatAStar) # << >>

-----------------------------------------------------------------------------
(* C7. A Publish during which a handler returned an error returns no       *)
(* error, and has invoked every broadcast handler of every matching        *)
(* pattern and one handler of every group of every matching pattern.       *)

C7_HandlerIsolation ==
    (call.op = "Publish" /\ \E i \in DOMAIN invoked : invoked[i].result = "error") =>
        /\ ret = "nil"
        /\ \A p \in DOMAIN handlers :
               matchSubject(p, call.subject) =>
                   Len(BroadcastLog(invoked, p)) = Len(handlers[p])
        /\ \A k \in GroupKeys(groups) :
               matchSubject(k[1], call.subject) => Len(GroupLog(invoked, k)) = 1

\* after a broadcast handler failed, a later handler of the same pattern and
\* a group handler were still invoked
C7_Witness ==
    /\ Published
    /\ \E i, j, l \in DOMAIN invoked :
           /\ i < j
           /\ i < l
           /\ invoked[i].kind = "broadcast"
           /\ invoked[i].result = "error"
           /\ invoked[j].kind = "broadcast"
           /\ invoked[j].pattern = invoked[i].pattern
           /\ invoked[l].kind = "group"

-----------------------------------------------------------------------------
(* C8. A Publish with an empty subject returns "subject is required", one  *)
(* with a non-empty subject and a nil event returns "event is required";   *)
(* either invokes no handler and leaves registries and cursors as they     *)
(* were.                                                                   *)

C8_Step ==
    (call'.op = "Publish" /\ (call'.subject = Empty \/ call'.event = NilEvent)) =>
        /\ ret' = IF call'.subject = Empty THEN "subject is required"
                  ELSE "event is required"
        /\ invoked' = << >>
        /\ UNCHANGED <<handlers, groups, groupIndex>>

C8_PublishValidation == [][C8_Step]_vars

\* a nil event was refused on a subject that a broadcast handler and a group
\* that has been dispatched to are registered under
C8_Witness ==
    /\ call.op = "Publish"
    /\ call.subject = SubjAB
    /\ call.event = NilEvent
    /\ ret = "event is required"
    /\ SubjAB \in DOMAIN handlers
    /\ OwnCursor(<<SubjAB, "g1">>) > 0

-----------------------------------------------------------------------------
(* C9. A Subscribe with an empty subject returns "subject is required",    *)
(* one with a non-empty subject and a nil handler returns "handler is      *)
(* required"; either leaves registries and cursors as they were, and no    *)
(* Publish invokes a nil handler or a handler of the empty pattern.        *)

C9_Step ==
    /\ (call'.op = "Subscribe" /\ (call'.subject = Empty \/ call'.handler = NilHandler)) =>
           /\ ret' = IF call'.subject = Empty THEN "subject is required"
                     ELSE "handler is required"
           /\ UNCHANGED <<handlers, groups, groupIndex>>
    /\ \A i \in DOMAIN invoked' :
           invoked'[i].handler # NilHandler /\ invoked'[i].pattern # Empty

C9_SubscribeValidation == [][C9_Step]_vars

\* a nil handler was refused on a bus that holds registrations
C9_Witness ==
    /\ call.op = "Subscribe"
    /\ call.subject = SubjAB
    /\ call.handler = NilHandler
    /\ ret = "handler is required"
    /\ SubjAB \in DOMAIN handlers
    /\ SubjAB \in DOMAIN groups

-----------------------------------------------------------------------------
(* C10. A SubscribeWithHandlerGroup with an empty subject, an empty group  *)
(* or a nil handler returns the error of the first of them that is         *)
(* violated, in the order subject, group, handler, and leaves registries   *)
(* and cursors as they were.                                               *)

C10_Step ==
    (/\ call'.op = "SubscribeWithHandlerGroup"
     /\ (call'.subject = Empty \/ call'.group = NoGroup \/ call'.handler = NilHandler)) =>
        /\ ret' = IF call'.subject = Empty THEN "subject is required"
                  ELSE IF call'.group = NoGroup THEN "group is required"
                  ELSE "handler is required"
        /\ UNCHANGED <<handlers, groups, groupIndex>>

C10_GroupSubscribeValidation == [][C10_Step]_vars

\* an empty subject was named before the empty group and the nil handler
\* given with it, on a bus that holds registrations
C10_Witness ==
    /\ call.op = "SubscribeWithHandlerGroup"
    /\ call.subject = Empty
    /\ call.group = NoGroup
    /\ call.handler = NilHandler
    /\ ret = "subject is required"
    /\ SubjAB \in DOMAIN handlers
    /\ SubjAB \in DOMAIN groups

-----------------------------------------------------------------------------
(* C11. The Publish that follows a Close returns no error and invokes no   *)
(* handler, whatever was registered before the Close. Once a Close has     *)
(* happened, a Subscribe or SubscribeWithHandlerGroup still returns no     *)
(* error and appends its handler, and a successful Publish invokes every   *)
(* broadcast handler and one handler of every group registered since under *)
(* a matching pattern.                                                     *)

C11_Step ==
    /\ (call.op = "Close" /\ call'.op = "Publish") =>
           /\ ret' = "nil"
           /\ invoked' = << >>
    /\ (lastClose.happened /\ call'.op = "Subscribe") =>
           /\ ret' = "nil"
           /\ call'.subject \in DOMAIN handlers'
           /\ handlers'[call'.subject] =
                  Append(Get(handlers, call'.subject, << >>), call'.handler)
    /\ (lastClose.happened /\ call'.op = "SubscribeWithHandlerGroup") =>
           /\ ret' = "nil"
           /\ <<call'.subject, call'.group>> \in GroupKeys(groups')
           /\ groups'[call'.subject][call'.group] =
                  Append(Get(Get(groups, call'.subject, EmptyMap), call'.group, << >>),
                         call'.handler)
    /\ (lastClose'.happened /\ call'.op = "Publish" /\ ret' = "nil") =>
           /\ \A p \in DOMAIN handlers' :
                  matchSubject(p, call'.subject) =>
                      HandlersOf(BroadcastLog(invoked', p)) = handlers'[p]
           /\ \A k \in GroupKeys(groups') :
                  matchSubject(k[1], call'.subject) => Len(GroupLog(invoked', k)) = 1

C11_Reset == [][C11_Step]_vars

\* a publish to "a.b" after a Close that discarded registrations under "a.*":
\* it reached the handler registered under "a.b" since, and nothing else
C11_Witness ==
    /\ Published
    /\ call.subject = SubjAB
    /\ lastClose.happened
    /\ PatAStar \in lastClose.patterns
    /\ DOMAIN handlers = {SubjAB}
    /\ DOMAIN groups = {}
    /\ Len(invoked) = 1
    /\ invoked[1].pattern = SubjAB

-----------------------------------------------------------------------------
(* C12. Every Close returns no error and leaves the bus as NewMemoryBus    *)
(* makes it: no broadcast registration, no group, no cursor. A group that  *)
(* has not been dispatched to since it was first registered has its cursor *)
(* at 0, so that after a Close its first dispatch goes to its              *)
(* first-registered handler.                                               *)

C12_Step ==
    /\ call'.op = "Close" =>
           /\ ret' = "nil"
           /\ invoked' = << >>
           /\ NewMemoryBus'
    /\ \A k \in DOMAIN npub' :
           /\ npub'[k] = 0 => OwnCursor(k)' = 0
           /\ (/\ npub'[k] = 1
               /\ call'.op = "Publish"
               /\ ret' = "nil"
               /\ matchSubject(k[1], call'.subject)) =>
                   /\ Len(GroupLog(invoked', k)) = 1
                   /\ GroupLog(invoked', k)[1].handler = groups'[k[1]][k[2]][1]

C12_CloseResets == [][C12_Step]_vars

\* a group of two different handlers whose cursor had advanced was closed
\* over, registered again, and its first dispatch went to the first handler
C12_Witness ==
    /\ Published
    /\ lastClose.happened
    /\ \E k \in lastClose.advanced \cap DOMAIN npub :
           /\ matchSubject(k[1], call.subject)
           /\ npub[k] = 1
           /\ Len(groups[k[1]][k[2]]) = 2
           /\ groups[k[1]][k[2]][1] # groups[k[1]][k[2]][2]
           /\ GroupLog(invoked, k)[1].index = 0

-----------------------------------------------------------------------------
(* C13. A Publish with a non-empty subject and an event, made when no      *)
(* registered pattern of either registry matches the subject, returns no   *)
(* error, invokes no handler and leaves registries and cursors as they     *)
(* were.                                                                   *)

C13_Step ==
    (/\ call'.op = "Publish"
     /\ call'.subject # Empty
     /\ call'.event # NilEvent
     /\ \A p \in DOMAIN handlers \cup DOMAIN groups : ~matchSubject(p, call'.subject)) =>
        /\ ret' = "nil"
        /\ invoked' = << >>
        /\ UNCHANGED <<handlers, groups, groupIndex>>

C13_UnmatchedPublish == [][C13_Step]_vars

\* a publish to "a" passed by a broadcast handler and a group whose cursor
\* had advanced
C13_Witness ==
    /\ Published
    /\ call.subject = A
    /\ invoked = << >>
    /\ DOMAIN handlers # {}
    /\ \E k \in GroupKeys(groups) : OwnCursor(k) > 0

-----------------------------------------------------------------------------
(* C14. Under concurrent callers no registration is lost: while nobody     *)
(* holds the lock for writing, the bus holds as many broadcast handlers as *)
(* Subscribe calls have stored since the last Close. When every            *)
(* registration was made before the first Publish took the lock and every  *)
(* Publish has returned, each of the S broadcast handlers has been given   *)
(* exactly as many events as there were Publish calls, S times that many   *)
(* in all.                                                                 *)

BroadcastPlaces ==
    UNION {{<<"broadcast", p, NoGroup, i - 1>> : i \in DOMAIN handlers[p]} : p \in DOMAIN handlers}

RECURSIVE SumOver(_, _)
SumOver(f, S) ==
    IF S = {} THEN 0
    ELSE LET x == CHOOSE y \in S : TRUE
         IN  f[x] + SumOver(f, S \ {x})

GivenTo(place) == Len(Get(received, place, << >>))

C14_ExactBroadcastCounts ==
    /\ mu.writer = NoOne => Cardinality(BroadcastPlaces) = tally.subs
    /\ (tally.phased /\ tally.started = tally.returned) =>
           /\ running = {}
           /\ \A place \in BroadcastPlaces : GivenTo(place) = tally.returned
           /\ SumOver([place \in BroadcastPlaces |-> GivenTo(place)], BroadcastPlaces)
                  = tally.returned * Cardinality(BroadcastPlaces)

\* two handlers were registered by two callers, then the two callers
\* published at the same time: each handler was given both events
C14_Witness ==
    /\ tally.phased
    /\ tally.overlapped
    /\ tally.started = 2
    /\ tally.returned = 2
    /\ \A c \in Callers : callers[c].n = 2
    /\ Cardinality(BroadcastPlaces) = 2
    /\ \A place \in BroadcastPlaces : GivenTo(place) = 2

-----------------------------------------------------------------------------
(* C15. When every registration was made before the first Publish took the *)
(* lock and every Publish has returned, the cursor of each group that      *)
(* holds a handler equals the number of Publish calls, and so does the     *)
(* number of events given to the group's handlers.                         *)

GroupPlaces(k) ==
    {<<"group", k[1], k[2], i - 1>> : i \in DOMAIN groups[k[1]][k[2]]}

C15_ExactCursorAdvance ==
    (tally.phased /\ tally.started = tally.returned) =>
        \A k \in GroupKeys(groups) :
            Len(groups[k[1]][k[2]]) > 0 =>
                /\ OwnCursor(k) = tally.returned
                /\ SumOver([place \in GroupPlaces(k) |-> GivenTo(place)], GroupPlaces(k))
                       = tally.returned

-----------------------------------------------------------------------------
(* C16. A caller that is about to write a cursor or a registry is alone:   *)
(* no other caller holds the lock for reading, and no other caller is      *)
(* about to write.                                                         *)

Writing(c) == callers[c].pc \in {"store", "append", "gappend"}

C16_ExclusiveWrites ==
    \A c \in Callers :
        Writing(c) =>
            \A d \in Callers \ {c} : d \notin mu.readers /\ ~Writing(d)

-----------------------------------------------------------------------------
(* C18. A handler that has started and not returned belongs to the call    *)
(* its caller is making now, that caller is inside it and still holds the  *)
(* read lock; no caller has two handlers running; and the events one       *)
(* caller publishes are given to a handler in the order of its calls.      *)

-----------------------------------------------------------------------------
(* C17. Once the context every Subscribe was made with has been cancelled, *)
(* a Publish made with context.Background() returns no error and no        *)
(* invocation of the context-checking handler "hCtx" takes the event.      *)

C17_CancelledSubscriptionSilent ==
    (/\ call.op = "Publish"
     /\ call.ctx = Background
     /\ Cancellable \in cancelled) =>
        /\ ret = "nil"
        /\ \A i \in DOMAIN invoked :
               invoked[i].handler = "hCtx" => invoked[i].result # "nil"

-----------------------------------------------------------------------------
(* C19. A closed MockConn stays closed. A Publish, Subscribe,              *)
(* QueueSubscribe or Drain called on a closed connection returns           *)
(* nats.ErrConnectionClosed, and it and a Close called on a closed         *)
(* connection leave the connection, its subscriptions, its channels and    *)
(* the goroutines as they were.                                            *)

C19_Step ==
    IsClosed =>
        /\ IsClosed'
        /\ (/\ connCall'.n # connCall.n
            /\ connCall'.op \in {"Publish", "Subscribe", "QueueSubscribe", "Drain", "Close"}) =>
               /\ connCall'.op # "Close" => connRet' = ErrConnectionClosed
               /\ UNCHANGED <<conn, closers, workers>>

C19_ClosedConnection == [][C19_Step]_vars

\* a Subscribe was refused on a connection that holds a subscription and an
\* undelivered message and was closed by Close
C19_Witness ==
    /\ IsClosed
    /\ ~IsDrained
    /\ connCall.op = "Subscribe"
    /\ connRet = ErrConnectionClosed
    /\ Len(conn.subs) = 1
    /\ Len(conn.msgChan[SubjAB].buf) = 1

-----------------------------------------------------------------------------
(* C20. A Drain of an open connection, on the MockConn or through the      *)
(* MockNATSBus, returns no error and leaves the connection drained; a      *)
(* drained connection is closed in the end, the goroutine of Drain being   *)
(* scheduled. MockNATSBus.Close returns no error and leaves the connection *)
(* closed.                                                                 *)

C20_Step ==
    /\ (/\ connCall'.n # connCall.n
        /\ connCall'.op \in {"Drain", "MockNATSBus.Drain"}
        /\ ~IsClosed) =>
           /\ connRet' = "nil"
           /\ IsDrained'
    /\ (connCall'.n # connCall.n /\ connCall'.op = "MockNATSBus.Close") =>
           /\ connRet' = "nil"
           /\ IsClosed'

C20_DrainCloses == [][C20_Step]_vars /\ (IsDrained ~> IsClosed)

\* the goroutine of a Drain made through the bus has closed the connection
C20_Witness ==
    /\ connCall.op = "MockNATSBus.Drain"
    /\ connRet = "nil"
    /\ IsDrained
    /\ IsClosed
    /\ closers = 0

-----------------------------------------------------------------------------
(* C21: Close of the NATSBus returns nil, leaves the tracked list empty    *)
(* and the connection closed. The connection stays closed, and on a closed *)
(* connection Publish, Subscribe and SubscribeWithHandlerGroup return      *)
(* "nats: connection is closed", send nothing and register nothing.        *)

C21_Step ==
    /\ natsCall'.n # natsCall.n /\ natsCall'.op = "Close" =>
           /\ natsRet' = "nil"
           /\ subscriptions' = << >>
           /\ natsConn'.closed
    /\ natsConn.closed => natsConn'.closed
    /\ /\ natsCall'.n # natsCall.n
       /\ natsConn.closed
       /\ natsCall'.op \in {"Publish", "Subscribe", "SubscribeWithHandlerGroup"}
       => /\ natsRet' = ErrNATSClosed
          /\ natsConn' = natsConn
          /\ subscriptions' = subscriptions

C21_ClosedBus == [][C21_Step]_vars

\* a subscription was made, Close has closed the connection (no Drain has),
\* and a later Subscribe was refused
C21_Witness ==
    /\ natsCall.op = "Subscribe"
    /\ natsRet = ErrNATSClosed
    /\ natsConn.closed
    /\ ~natsConn.draining
    /\ Len(natsConn.subs) > 0
    /\ subscriptions = << >>

-----------------------------------------------------------------------------
(* C22: on an open connection SubscribeWithHandlerGroup with the empty     *)
(* group name returns "nats: group name is required", makes no queue       *)
(* subscription and leaves the tracked list as it was.                     *)

C22_Step ==
    /\ natsCall'.n # natsCall.n
    /\ natsCall'.op = "SubscribeWithHandlerGroup"
    /\ natsCall'.group = NoGroup
    /\ ~natsConn.closed
    => /\ natsRet' = ErrGroupRequired
       /\ natsConn' = natsConn
       /\ subscriptions' = subscriptions

C22_GroupRequired == [][C22_Step]_vars

\* the call was refused on an open connection that tracks a subscription
C22_Witness ==
    /\ natsCall.op = "SubscribeWithHandlerGroup"
    /\ natsCall.group = NoGroup
    /\ natsRet = ErrGroupRequired
    /\ ~natsConn.closed
    /\ Len(subscriptions) > 0

-----------------------------------------------------------------------------
(* C23: a successful SubscribeWithHandlerGroup appends the handler at the  *)
(* end of its group's list and changes nothing else: every cursor, the     *)
(* lists of the other groups and the broadcast registry are as before.     *)
(* When the group had K handlers and c matching publishes had been         *)
(* dispatched to it, the dispatch that follows the registration selects    *)
(* position c mod (K + 1).                                                 *)

\* the dispatch to a group, had it come now
NextSelection(pattern, group) ==
    DispatchGroup([ctx |-> Background, gi |-> groupIndex, log |-> << >>, panicked |-> FALSE],
                  pattern, group).log[1].index

C23_Step ==
    (call'.op = "SubscribeWithHandlerGroup" /\ ret' = "nil") =>
        LET k == <<call'.subject, call'.group>>
            old == Get(Get(groups, k[1], EmptyMap), k[2], << >>)
        IN  /\ GroupKeys(groups') = GroupKeys(groups) \cup {k}
            /\ groups'[k[1]][k[2]] = Append(old, call'.handler)
            /\ \A x \in GroupKeys(groups) \ {k} : groups'[x[1]][x[2]] = groups[x[1]][x[2]]
            /\ handlers' = handlers
            /\ \A x \in GroupKeys(groups') :
                   CursorOf(groupIndex', x[1], x[2]) = CursorOf(groupIndex, x[1], x[2])
            /\ \A p \in Patterns, g \in Groups :
                   (k = <<p, g>> /\ k \in DOMAIN npub /\ old # << >>) =>
                       NextSelection(p, g)' = npub[k] % (Len(old) + 1)

C23_RegistrationAppends == [][C23_Step]_vars

\* a group that one publish had been dispatched to has taken a second
\* handler, next to a group of the same pattern and a cursor of its own; the
\* next dispatch goes to the new handler
C23_Witness ==
    /\ call.op = "SubscribeWithHandlerGroup"
    /\ ret = "nil"
    /\ LET p == call.subject
           g == call.group
       IN  /\ Len(groups[p][g]) = 2
           /\ groups[p][g][1] # groups[p][g][2]
           /\ OwnCursor(<<p, g>>) = 1
           /\ NextSelection(p, g) = 1
           /\ \E g2 \in DOMAIN groups[p] : g2 # g /\ OwnCursor(<<p, g2>>) = 0

-----------------------------------------------------------------------------
(* C24: Close and the registrations are atomic for a concurrent Publish.   *)
(* From the RLock of a Publish to its RUnlock no step changes b.handlers   *)
(* or b.groups, and the Publish returns only when it has gone through all  *)
(* it found: a Close or a registration that overlaps it takes effect       *)
(* before the Publish reads the registry or after it has invoked every     *)
(* handler it found there.                                                 *)

C24_Step ==
    /\ mu.readers # {} => (handlers' = handlers /\ groups' = groups)
    /\ \A c \in Callers :
           (c \in mu.readers /\ c \notin mu'.readers) => callers[c].todo = << >>
    /\ \A c \in Callers :
           (mu'.writer = c \/ (callers'[c].n # callers[c].n /\ c \notin mu'.readers)) =>
               mu.readers = {}

C24_AtomicRegistry == [][C24_Step]_vars

\* a Publish is between two handlers of its pass while the other caller is
\* free to call Close or Subscribe
C24_Witness ==
    \E c, d \in Callers :
        /\ c # d
        /\ c \in mu.readers
        /\ callers[c].pc = "loop"
        /\ callers[c].todo # << >>
        /\ \E x \in DOMAIN received : \E i \in DOMAIN received[x] :
               received[x][i] = <<c, callers[c].n>>
        /\ Idle(d)
        /\ Registrations < MaxRegistrations

-----------------------------------------------------------------------------
(* C25: the bus does not look at the context of a Publish. A valid Publish *)
(* made with a context that is already cancelled returns nil, invokes      *)
(* every handler of every matching broadcast pattern in registration order *)
(* and one handler of every matching group, and passes each of them that   *)
(* context.                                                                *)

C25_Step ==
    (/\ call'.op = "Publish"
     /\ call'.ctx \in cancelled
     /\ call'.subject # Empty
     /\ call'.event # NilEvent) =>
        /\ ret' = "nil"
        /\ \A p \in DOMAIN handlers :
               matchSubject(p, call'.subject) =>
                   HandlersOf(BroadcastLog(invoked', p)) = handlers[p]
        /\ \A k \in GroupKeys(groups) :
               matchSubject(k[1], call'.subject) => Len(GroupLog(invoked', k)) = 1
        /\ \A i \in DOMAIN invoked' : invoked'[i].ctx = call'.ctx

C25_ContextNotInspected == [][C25_Step]_vars

\* a publish with the cancelled context reached two broadcast handlers and a
\* group, and a handler that looks at the context saw it cancelled
C25_Witness ==
    /\ Published
    /\ call.ctx = Cancellable
    /\ Cancellable \in cancelled
    /\ \E p \in DOMAIN handlers : Len(BroadcastLog(invoked, p)) = 2
    /\ \E k \in GroupKeys(groups) : Len(GroupLog(invoked, k)) = 1
    /\ \E i \in DOMAIN invoked : invoked[i].result = "canceled"

-----------------------------------------------------------------------------
(* C26: every call on the bus returns. Under fair scheduling, with         *)
(* handlers that return and do not call the bus, a caller that is in a     *)
(* call, waiting for the lock or past it, is eventually out of it.         *)

C26_EveryCallReturns ==
    \A c \in Callers : (callers[c].pc # "idle") ~> (callers[c].pc = "idle")

-----------------------------------------------------------------------------
(* C27: the cursor of a group is never negative, a dispatch adds exactly 1 *)
(* to it, nothing but Close takes it back, and the index it gives, cursor  *)
(* modulo the number of handlers, is a position of the handler list, also  *)
(* once the cursor has been at the largest value of its type.              *)

C27_Step ==
    /\ \A k \in GroupKeys(groups) :
           /\ OwnCursor(k) >= 0
           /\ SelectIndex(OwnCursor(k), Len(groups[k[1]][k[2]])) \in
                  0..(Len(groups[k[1]][k[2]]) - 1)
    /\ \A p \in Patterns, g \in Groups :
           \/ CursorOf(groupIndex', p, g) = CursorOf(groupIndex, p, g)
           \/ CursorOf(groupIndex', p, g) = CursorOf(groupIndex, p, g) + 1
           \/ call'.op = "Close" /\ CursorOf(groupIndex', p, g) = 0
    /\ ret' # PanicIndex

C27_CursorValid == [][C27_Step]_vars

-----------------------------------------------------------------------------
(* C28: the registries are well formed in every reachable state. No key of *)
(* b.handlers or b.groups is the empty pattern, no group name is empty,    *)
(* and every handler list stored in either is non-empty and holds no nil   *)
(* handler.                                                                *)

WellFormed(hs) == hs # << >> /\ \A i \in DOMAIN hs : hs[i] # NilHandler

C28_RegistryWellFormed ==
    /\ \A p \in DOMAIN handlers : p # Empty /\ WellFormed(handlers[p])
    /\ \A p \in DOMAIN groups :
           /\ p # Empty
           /\ \A g \in DOMAIN groups[p] : g # NoGroup /\ WellFormed(groups[p][g])

\* a registration with an empty group name has just been refused by a bus
\* that holds a broadcast handler and a group
C28_Witness ==
    /\ call.op = "SubscribeWithHandlerGroup"
    /\ call.subject = SubjAB
    /\ call.group = NoGroup
    /\ call.handler = "h1"
    /\ ret = "group is required"
    /\ SubjAB \in DOMAIN handlers
    /\ SubjAB \in DOMAIN groups

-----------------------------------------------------------------------------
(* C29: the rotation of a group belongs to its registered pattern and its  *)
(* name, not to the subject published. A successful Publish dispatches     *)
(* once to every (pattern, group) whose pattern matches the subject, to    *)
(* the position its own cursor gives, and advances that cursor by one,     *)
(* whichever matching subject it was; the cursor of every other            *)
(* (pattern, group), the same group name under another pattern included,   *)
(* stays as it was.                                                        *)

C29_Step ==
    (call'.op = "Publish" /\ ret' = "nil") =>
        \A k \in GroupKeys(groups) :
            LET hs == groups[k[1]][k[2]]
                log == GroupLog(invoked', k)
            IN  IF matchSubject(k[1], call'.subject)
                THEN /\ Len(log) = 1
                     /\ log[1].index = OwnCursor(k) % Len(hs)
                     /\ OwnCursor(k)' = OwnCursor(k) + 1
                ELSE /\ log = << >>
                     /\ OwnCursor(k)' = OwnCursor(k)

C29_KeyedByPatternAndGroup == [][C29_Step]_vars

\* the name "g1" is registered under both patterns; a publish to "a.c" had
\* advanced the cursor under "a.*" alone, and now a publish to "a.b" was
\* dispatched once under each pattern, from cursors that differ
C29_Witness ==
    /\ Published
    /\ call.subject = SubjAB
    /\ Len(GroupLog(invoked, <<PatAStar, "g1">>)) = 1
    /\ Len(GroupLog(invoked, <<SubjAB, "g1">>)) = 1
    /\ OwnCursor(<<PatAStar, "g1">>) = 2
    /\ OwnCursor(<<SubjAB, "g1">>) = 1

-----------------------------------------------------------------------------
(* C30: the fail-fast Publish. When a broadcast handler returns an error   *)
(* Publish returns an error that wraps it, having invoked the handlers up  *)
(* to that one and nothing after it, no group handler, and no cursor has   *)
(* moved. When the handler selected for a group returns an error Publish   *)
(* returns an error that wraps it; that group's cursor has advanced by     *)
(* one, and the groups not yet visited are neither dispatched to nor       *)
(* advanced.                                                               *)

\* the position of the first handler of hs that returns an error: 0 for none
FirstFailing(hs, ctx) ==
    IF \A i \in DOMAIN hs : HandlerResult(hs[i], ctx) = "nil" THEN 0
    ELSE CHOOSE i \in DOMAIN hs :
             /\ HandlerResult(hs[i], ctx) # "nil"
             /\ \A j \in 1..(i - 1) : HandlerResult(hs[j], ctx) = "nil"

C30_Step ==
    (call'.op = "Publish") =>
        LET s == call'.subject
            hs == Get(handlers, s, << >>)
            f == FirstFailing(hs, call'.ctx)
            IsGroup(e) == e.kind = "group"
            gl == SelectSeq(invoked', IsGroup)
        IN  IF f > 0
            THEN /\ ret' = "handler error: error"
                 /\ HandlersOf(invoked') = SubSeq(hs, 1, f)
                 /\ gl = << >>
                 /\ groupIndex' = groupIndex
            ELSE /\ HandlersOf(BroadcastLog(invoked', s)) = hs
                 /\ \A k \in GroupKeys(groups) :
                        IF GroupLog(invoked', k) # << >>
                        THEN /\ k[1] = s
                             /\ Len(GroupLog(invoked', k)) = 1
                             /\ OwnCursor(k)' = OwnCursor(k) + 1
                        ELSE OwnCursor(k)' = OwnCursor(k)
                 /\ IF \E i \in DOMAIN gl : gl[i].result # "nil"
                    THEN /\ ret' = "group handler error: error"
                         /\ \A i \in DOMAIN gl : gl[i].result # "nil" <=> i = Len(gl)
                    ELSE /\ ret' = "nil"
                         /\ \A k \in GroupKeys(groups) :
                                k[1] = s => Len(GroupLog(invoked', k)) = 1

C30_FailFast == [][C30_Step]_vars

\* after a broadcast handler that succeeded, the handler selected for one
\* group returned an error: the cursor of that group is at 1, and the other
\* group of the subject was not visited and its cursor is at 0
C30_Witness ==
    /\ call.op = "Publish"
    /\ ret = "group handler error: error"
    /\ Len(invoked) = 2
    /\ invoked[1].kind = "broadcast"
    /\ invoked[2].kind = "group"
    /\ OwnCursor(<<call.subject, invoked[2].group>>) = 1
    /\ \E g \in DOMAIN groups[call.subject] :
           /\ g # invoked[2].group
           /\ OwnCursor(<<call.subject, g>>) = 0

-----------------------------------------------------------------------------
(* C31. On non-empty subjects without a '*', non-empty groups, handlers    *)
(* that return nil and a non-nil event, a call on the validating MemoryBus *)
(* and the same call on the fail-fast MemoryBus have the same outcomes:    *)
(* every step the one can take from a state the other can take too, with   *)
(* the same result, the same invocations in the same order, and the same   *)
(* registries and cursors afterwards.                                      *)

C31_Step ==
    /\ \A s \in PlainSubjects :
           Publish(Background, s, Event) <=> FailFastPublish(Background, s, Event)
    /\ \A s \in PlainSubjects, h \in PlainHandlers :
           Subscribe(Background, s, h) <=> FailFastSubscribe(Background, s, h)
    /\ \A s \in PlainSubjects, g \in Groups, h \in PlainHandlers :
           SubscribeWithHandlerGroup(Background, s, g, h)
               <=> FailFastSubscribeWithHandlerGroup(Background, s, g, h)

C31_VariantsEquivalent == [][C31_Step]_vars

\* a publish that went to a broadcast handler and to the second handler of
\* a group
C31_Witness ==
    /\ call.op = "Publish"
    /\ ret = "nil"
    /\ \E i \in DOMAIN invoked : invoked[i].kind = "broadcast"
    /\ \E i \in DOMAIN invoked : invoked[i].kind = "group" /\ invoked[i].index = 1
-----------------------------------------------------------------------------
(* C32. Given the same calls, the NATSBus over a reliable broker returns   *)
(* an error exactly where the MemoryBus does. The MemoryBus answers a call *)
(* by its validation alone, whatever calls came before, Close among them;  *)
(* so the NATSBus is to answer every Publish, Subscribe,                   *)
(* SubscribeWithHandlerGroup and Close with an error exactly when that     *)
(* validation refuses the call.                                            *)

C32_Interchangeable ==
    /\ (ret = "nil") <=>
           (MemoryBusResult(call.op, call.subject, call.group,
                            call.handler, call.event) = "nil")
    /\ natsCall.op \in {"Publish", "Subscribe", "SubscribeWithHandlerGroup", "Close"} =>
           ((natsRet = "nil") <=>
               (MemoryBusResult(natsCall.op, natsCall.subject, natsCall.group,
                                "h1", Event) = "nil"))
-----------------------------------------------------------------------------
(* C33. After a Publish on "a.b" that an open connection took while two    *)
(* subscriptions on "a.b" were active, the handler of each of the two is   *)
(* eventually invoked, unless one of them is closed in the meantime.       *)

ActiveOn(i, subject) ==
    /\ i \in DOMAIN conn.subs
    /\ conn.subs[i].subject = subject
    /\ ~conn.subs[i].closed

PublishTaken(subject) ==
    /\ connCall.op = "Publish"
    /\ connCall.subject = subject
    /\ connRet = "nil"

C33_EverySubscriberHandles ==
    \A i, j \in 1..MaxConnCalls :
        (i < j /\ PublishTaken(SubjAB) /\ ActiveOn(i, SubjAB) /\ ActiveOn(j, SubjAB))
            ~> \/ ~ActiveOn(i, SubjAB)
               \/ ~ActiveOn(j, SubjAB)
               \/ workers[i].handled >= 1 /\ workers[j].handled >= 1
-----------------------------------------------------------------------------
(* C34. A Publish on an open connection returns nil. When the subject has  *)
(* no channel, or its channel holds ChanCap messages, the call leaves the  *)
(* connection as it was: the message is dropped and the buffered messages  *)
(* are the same. Otherwise the message is appended to the channel.         *)

C34_Step ==
    \A s \in {SubjAB, SubjAC} :
        (/\ connCall'.n # connCall.n
         /\ connCall'.op = "Publish"
         /\ connCall'.subject = s
         /\ ~conn.closed)
        => /\ connRet' = "nil"
           /\ s \notin DOMAIN conn.msgChan => conn' = conn
           /\ s \in DOMAIN conn.msgChan =>
                  IF Len(conn.msgChan[s].buf) = ChanCap
                  THEN conn' = conn
                  ELSE conn'.msgChan[s].buf =
                           Append(conn.msgChan[s].buf, Msg(s, connCall'.n))

C34_PublishNeverFails == [][C34_Step]_vars

\* the channel has been full since the connection was last looked at, its
\* goroutine has received nothing, and a Publish on its subject returned nil
C34_Witness ==
    /\ connCall.n >= 1
    /\ PublishTaken(SubjAB)
    /\ ~conn.closed
    /\ Len(conn.msgChan[SubjAB].buf) = ChanCap
    /\ workers[1].handled = 0
-----------------------------------------------------------------------------
(* C35. Under every interleaving of the calls on the connection and of the *)
(* goroutines that Drain and Subscribe start, no channel is closed more    *)
(* than once and no message is sent on a closed channel; and once the      *)
(* connection is closed the goroutine of every subscription ends.          *)

C35_ChannelSafety ==
    /\ [](\A s \in DOMAIN conn.msgChan :
             conn.msgChan[s].closes <= 1 /\ ~conn.msgChan[s].panicked)
    /\ conn.closed ~> (\A i \in DOMAIN workers : ~workers[i].ranging)

\* Drain was called twice on a connection with a subscription: the goroutine
\* of the first Drain has closed the connection and the channel, the
\* goroutine of the subscription has ended, the goroutine of the second
\* Drain has yet to run
C35_Witness ==
    /\ connCall.op = "Drain"
    /\ connRet = "nil"
    /\ conn.closed
    /\ closers = 1
    /\ \E s \in DOMAIN conn.msgChan : conn.msgChan[s].closes = 1
    /\ \E i \in DOMAIN workers : ~workers[i].ranging
-----------------------------------------------------------------------------
(* C36. Once Unsubscribe has closed a subscription its handler is invoked  *)
(* no more. And after a Publish on "a.b" that an open connection took      *)
(* while one subscription on "a.b" was unsubscribed and another active,    *)
(* the handler of an active subscription on "a.b" is eventually invoked,   *)
(* unless the connection is closed or no active subscription is left.      *)

C36_Step ==
    \A i \in DOMAIN workers :
        conn.subs[i].closed /\ SubMu \in conn.subs[i].locks
            => workers'[i].handled = workers[i].handled

C36_UnsubscribeIsLocal ==
    /\ [][C36_Step]_vars
    /\ \A i, j \in 1..MaxConnCalls :
           (/\ PublishTaken(SubjAB)
            /\ ~conn.closed
            /\ i \in DOMAIN conn.subs
            /\ conn.subs[i].subject = SubjAB
            /\ conn.subs[i].closed
            /\ ActiveOn(j, SubjAB))
           ~> \/ conn.closed
              \/ \A k \in DOMAIN conn.subs : ~ActiveOn(k, SubjAB)
              \/ \E k \in DOMAIN conn.subs : ActiveOn(k, SubjAB) /\ workers[k].handled >= 1
-----------------------------------------------------------------------------
(* C37. The mutex of a subscription was held at every read and every write *)
(* of its closed flag, by MockConn.Close, by MockSub.Unsubscribe and by    *)
(* the goroutine of the subscription.                                      *)

C37_FlagUnderSubMu ==
    \A i \in DOMAIN conn.subs : SubMu \in conn.subs[i].locks
====
